---- MODULE Spec2Model ----
(***************************************************************************)
(* VentureScope: the response parsers of the stage agents, the risk level  *)
(* classification, the score aggregation, the recommendation and the       *)
(* analyze_pitch_deck pipeline of the orchestrator.                        *)
(*                                                                         *)
(* A text is a sequence of one-character strings.  Characters outside      *)
(* ASCII are written by their code point: "u2022" is the bullet U+2022,    *)
(* "u00E2" "u20AC" "u00A2" are the three characters of the literal that    *)
(* risk_flagging.py passes to startswith.                                  *)
(***************************************************************************)
EXTENDS Integers, Sequences, FiniteSets, TLC

VARIABLES
    arg,            \* the input of the pure function under check
    op,             \* the function that was applied to arg ("none" before)
    ret,            \* what it returned
    pc,             \* position of the run inside analyze_pitch_deck
    company_data,   \* result of the document stage
    market_analysis,
    team_assessment,
    financial_analysis,
    risk_assessment,
    final_score,
    memo_result,
    store,          \* the artifacts KnowledgeStore holds for the run's deck
    result,         \* what analyze_pitch_deck returned or raised
    calls           \* the steps analyze_pitch_deck has invoked, in order

vars == <<arg, op, ret, pc, company_data, market_analysis, team_assessment,
          financial_analysis, risk_assessment, final_score, memo_result,
          store, result, calls>>

pipelineVars == <<pc, company_data, market_analysis, team_assessment,
                  financial_analysis, risk_assessment, final_score,
                  memo_result, store, result, calls>>

funVars == <<arg, op, ret>>

(***************************************************************************)
(* Bounds of the checked input spaces.                                     *)
(***************************************************************************)
MaxSectionTokens == 5
MaxScoreTokens == 5
MaxListLines == 4
MaxParseTokens == 4
MaxFlags == 3
MaxHigh == 4
MaxRiskLines == 4
MaxStageTokens == 3
MaxTeam == 3

(***************************************************************************)
(* Characters and strings as Python sees them.                             *)
(***************************************************************************)
NL == "\n"

Digits == <<"0", "1", "2", "3", "4", "5", "6", "7", "8", "9">>

Whitespace == {" ", "\t", "\n", "\r", "\f"}

UpperCase == <<"A", "B", "C", "D", "E", "F", "G", "H", "I", "J", "K", "L", "M",
               "N", "O", "P", "Q", "R", "S", "T", "U", "V", "W", "X", "Y", "Z">>

LowerCase == <<"a", "b", "c", "d", "e", "f", "g", "h", "i", "j", "k", "l", "m",
               "n", "o", "p", "q", "r", "s", "t", "u", "v", "w", "x", "y", "z">>

IsDigit(c) == \E d \in 1..10 : Digits[d] = c

DigitValue(c) == (CHOOSE d \in 1..10 : Digits[d] = c) - 1

IsSpace(c) == c \in Whitespace

Lower(c) ==
    IF \E k \in 1..26 : UpperCase[k] = c
    THEN LowerCase[CHOOSE k \in 1..26 : UpperCase[k] = c]
    ELSE c

\* int(s) for a string of decimal digits
RECURSIVE ToInt(_)
ToInt(s) ==
    IF s = <<>> THEN 0
    ELSE 10 * ToInt(SubSeq(s, 1, Len(s) - 1)) + DigitValue(s[Len(s)])

\* str(n) for a natural number
RECURSIVE Str(_)
Str(n) ==
    IF n < 10 THEN <<Digits[n + 1]>>
    ELSE Append(Str(n \div 10), Digits[(n % 10) + 1])

\* s.startswith(prefix)
StartsWith(s, prefix) ==
    /\ Len(prefix) <= Len(s)
    /\ SubSeq(s, 1, Len(prefix)) = prefix

\* sub in s
Contains(s, sub) ==
    \E i \in 1..(Len(s) + 1) :
        /\ i + Len(sub) - 1 <= Len(s)
        /\ SubSeq(s, i, i + Len(sub) - 1) = sub

\* s.strip()
Strip(s) ==
    LET keep == {i \in 1..Len(s) : ~IsSpace(s[i])}
    IN  IF keep = {} THEN <<>>
        ELSE SubSeq(s, CHOOSE i \in keep : \A k \in keep : i <= k,
                       CHOOSE i \in keep : \A k \in keep : i >= k)

\* text.split('\n'): always at least one line, the last one possibly empty
RECURSIVE SplitLines(_)
SplitLines(text) ==
    LET nls == {i \in 1..Len(text) : text[i] = NL}
    IN  IF nls = {} THEN <<text>>
        ELSE LET i == CHOOSE k \in nls : \A m \in nls : k <= m
             IN  <<SubSeq(text, 1, i - 1)>>
                     \o SplitLines(SubSeq(text, i + 1, Len(text)))

Min(S) == CHOOSE x \in S : \A y \in S : x <= y

Max(S) == CHOOSE x \in S : \A y \in S : x >= y

\* min(max(v, lo), hi)
Clamp(v, lo, hi) ==
    LET m == IF v > lo THEN v ELSE lo
    IN  IF m < hi THEN m ELSE hi

\* the concatenation of a sequence of strings
RECURSIVE Flatten(_)
Flatten(ss) == IF ss = <<>> THEN <<>> ELSE Head(ss) \o Flatten(Tail(ss))

\* the lines joined by '\n'
RECURSIVE JoinLines(_)
JoinLines(ls) ==
    IF ls = <<>> THEN <<>>
    ELSE IF Len(ls) = 1 THEN ls[1]
    ELSE ls[1] \o <<NL>> \o JoinLines(Tail(ls))

\* all sequences of at most n elements of S
SeqsUpTo(S, n) == UNION {[1..k -> S] : k \in 0..n}

(***************************************************************************)
(* The sentinels.                                                          *)
(***************************************************************************)
NotSpecified ==
    <<"N", "o", "t", " ", "s", "p", "e", "c", "i", "f", "i", "e", "d">>

NoneIdentified ==
    <<"N", "o", "n", "e", " ", "i", "d", "e", "n", "t", "i", "f", "i", "e", "d">>

DefaultScore == 15

(***************************************************************************)
(* Section extraction of the market, team and financial agents.  The three *)
(* agents carry the same method; market_analysis.py is the copy modelled.  *)
(* Line k of the model is lines[k - 1] of the code.                        *)
(***************************************************************************)
\* the inner loop: the lines j after line i that the test of the code accepts
SectionCandidates(lines, i) ==
    {j \in (i + 1)..Len(lines) :
        /\ Strip(lines[j]) # <<>>
        /\ ~StartsWith(Strip(lines[j]), Str(j - 1))}

ExtractSection(text, section_name) ==
    LET lines == SplitLines(text)
        hits == {i \in 1..Len(lines) :
                    /\ Contains(lines[i], section_name)
                    /\ SectionCandidates(lines, i) # {}}
    IN  IF hits = {} THEN NotSpecified
        ELSE Strip(lines[Min(SectionCandidates(lines, Min(hits)))])

(***************************************************************************)
(* Score extraction: re.search(r'(\d+)\s*(?:/25|points|out of 25)', text,  *)
(* re.IGNORECASE), then int(group(1)) clamped to 0..25, 15 with no match.  *)
(***************************************************************************)
ScoreSuffixes ==
    { <<"/", "2", "5">>,
      <<"p", "o", "i", "n", "t", "s">>,
      <<"o", "u", "t", " ", "o", "f", " ", "2", "5">> }

\* (?:/25|points|out of 25) matches at position p, ignoring case
SuffixAt(text, p) ==
    \E suf \in ScoreSuffixes :
        /\ p + Len(suf) - 1 <= Len(text)
        /\ \A k \in 1..Len(suf) : Lower(text[p + k - 1]) = suf[k]

\* the pattern matches with group(1) = text[i..k]
ScoreMatchAt(text, i, k) ==
    /\ \A d \in i..k : IsDigit(text[d])
    /\ \E p \in (k + 1)..Len(text) :
        /\ \A w \in (k + 1)..(p - 1) : IsSpace(text[w])
        /\ SuffixAt(text, p)

ScoreMatches(text) ==
    LET digitAt == {d \in 1..Len(text) : IsDigit(text[d])}
    IN  {m \in digitAt \X digitAt :
            m[1] <= m[2] /\ ScoreMatchAt(text, m[1], m[2])}

\* re.search: the leftmost start, and \d+ greedy from there
ScoreGroup(text) ==
    LET ms == ScoreMatches(text)
        i == Min({m[1] : m \in ms})
        k == Max({m[2] : m \in {n \in ms : n[1] = i}})
    IN  SubSeq(text, i, k)
\* mutant: the matched number is returned without the clamp
ExtractScore_NoClamp(text) ==
    IF ScoreMatches(text) = {} THEN DefaultScore
    ELSE ToInt(ScoreGroup(text))

ExtractScore(text) ==
    IF ScoreMatches(text) = {} THEN DefaultScore
    ELSE Clamp(ToInt(ScoreGroup(text)), 0, 25)

(***************************************************************************)
(* List extraction of the risk agent.                                      *)
(***************************************************************************)
\* the literal of the second startswith test, as the source file holds it
BulletLiteral == <<"u00E2", "u20AC", "u00A2">>

\* line.startswith('-') or line.startswith(<literal>) or line.startswith('*')
IsBulletLine(line) ==
    \/ StartsWith(line, <<"-">>)
    \/ StartsWith(line, BulletLiteral)
    \/ StartsWith(line, <<"*">>)

\* line.strip() and line.strip()[0].isdigit() and '.' in line
IsNextSection(line) ==
    /\ Strip(line) # <<>>
    /\ IsDigit(Strip(line)[1])
    /\ Contains(line, <<".">>)

\* line.startswith(('1.', '2.', '3.'))
LooksNumbered(line) ==
    \/ StartsWith(line, <<"1", ".">>)
    \/ StartsWith(line, <<"2", ".">>)
    \/ StartsWith(line, <<"3", ".">>)

\* the for loop from line k on, with the loop's in_section and items
RECURSIVE ListLoop(_, _, _, _, _)
ListLoop(lines, section_name, k, in_section, items) ==
    IF k > Len(lines) THEN items
    ELSE IF Contains(lines[k], section_name)
    THEN ListLoop(lines, section_name, k + 1, TRUE, items)
    ELSE IF ~in_section
    THEN ListLoop(lines, section_name, k + 1, FALSE, items)
    ELSE IF IsNextSection(lines[k]) THEN items
    ELSE LET line == Strip(lines[k])
         IN  IF line # <<>> /\ IsBulletLine(line)
             THEN ListLoop(lines, section_name, k + 1, TRUE,
                           Append(items, Strip(Tail(line))))
             ELSE IF line # <<>> /\ Len(items) = 0 /\ ~LooksNumbered(line)
             THEN ListLoop(lines, section_name, k + 1, TRUE,
                           Append(items, line))
             ELSE ListLoop(lines, section_name, k + 1, TRUE, items)
\* mutant: the loop starts as if the header had already been seen
ExtractListSection_InSection(text, section_name) ==
    LET items == ListLoop(SplitLines(text), section_name, 1, TRUE, <<>>)
    IN  IF items # <<>> THEN items ELSE <<NoneIdentified>>

ExtractListSection(text, section_name) ==
    LET items == ListLoop(SplitLines(text), section_name, 1, FALSE, <<>>)
    IN  IF items # <<>> THEN items ELSE <<NoneIdentified>>

(***************************************************************************)
(* Risk level, critical flags, stage scores, final score, recommendation.  *)
(***************************************************************************)
RiskLevels == {"LOW", "MEDIUM", "HIGH", "CRITICAL"}

Recommendations == {"PASS", "CONSIDER", "STRONG CONSIDER", "INVEST"}

NotSentinel(flag) == flag # NoneIdentified
\* mutant: the high risks are counted with the sentinel included
DetermineRiskLevel_CountAll(critical, high) ==
    IF \E k \in 1..Len(critical) : critical[k] # NoneIdentified
    THEN "CRITICAL"
    ELSE IF Len(high) >= 3 THEN "HIGH"
    ELSE IF Len(high) >= 1 THEN "MEDIUM"
    ELSE "LOW"

\* any(flag != "None identified" ...), then the two length tests on high
DetermineRiskLevel(critical, high) ==
    IF \E k \in 1..Len(critical) : critical[k] # NoneIdentified
    THEN "CRITICAL"
    ELSE IF Len(SelectSeq(high, NotSentinel)) >= 3 THEN "HIGH"
    ELSE IF Len(SelectSeq(high, NotSentinel)) >= 1 THEN "MEDIUM"
    ELSE "LOW"
\* mutant: the critical list is passed on unfiltered
IdentifyCriticalFlags_Unfiltered(critical) == critical

IdentifyCriticalFlags(critical) == SelectSeq(critical, NotSentinel)

\* lines 59-67 of RiskFlaggingAgent.process: categorise, then build the result
RiskResult(assessment) ==
    [ risk_assessment |-> assessment,
      risk_level |-> DetermineRiskLevel(assessment.critical_flags,
                                        assessment.high_risks),
      critical_flags |-> IdentifyCriticalFlags(assessment.critical_flags) ]

CalculateMarketScore(market_score) == market_score
\* mutant: the bonus for three or more members is added without the cap
CalculateTeamScore_NoCap(team_score, team_members) ==
    IF team_members = 0
    THEN (IF team_score - 5 > 0 THEN team_score - 5 ELSE 0)
    ELSE IF team_members >= 3 THEN team_score + 2
    ELSE team_score

CalculateTeamScore(team_score, team_members) ==
    IF team_members = 0
    THEN (IF team_score - 5 > 0 THEN team_score - 5 ELSE 0)
    ELSE IF team_members >= 3
    THEN (IF team_score + 2 < 25 THEN team_score + 2 ELSE 25)
    ELSE team_score

\* mutant: the revenue and growth bonuses are added without the cap at 25
CalculateFinancialScore_NoCap(financial_score, revenue, growth_rate) ==
    financial_score + (IF revenue THEN 3 ELSE 0)
                    + (IF growth_rate THEN 2 ELSE 0)

CalculateFinancialScore(financial_score, revenue, growth_rate) ==
    LET withRevenue ==
            IF revenue
            THEN (IF financial_score + 3 < 25 THEN financial_score + 3 ELSE 25)
            ELSE financial_score
    IN  IF growth_rate
        THEN (IF withRevenue + 2 < 25 THEN withRevenue + 2 ELSE 25)
        ELSE withRevenue
\* mutant: an unrecognised level is scored like the MEDIUM default of the get
ExecutionScore_DefaultMedium(risk_level) ==
    CASE risk_level = "LOW" -> 25
      [] risk_level = "MEDIUM" -> 18
      [] risk_level = "HIGH" -> 12
      [] risk_level = "CRITICAL" -> 5
      [] OTHER -> 18

\* the lookup table of _calculate_final_score and its default
ExecutionScore(risk_level) ==
    CASE risk_level = "LOW" -> 25
      [] risk_level = "MEDIUM" -> 18
      [] risk_level = "HIGH" -> 12
      [] risk_level = "CRITICAL" -> 5
      [] OTHER -> 15

\* mutant: the total is clamped to 0..90
CalculateFinalScore_Clamp90(market_score, team_score, financial_score, risk_level) ==
    Clamp(market_score + team_score + financial_score
              + ExecutionScore(risk_level), 0, 90)

CalculateFinalScore(market_score, team_score, financial_score, risk_level) ==
    Clamp(market_score + team_score + financial_score
              + ExecutionScore(risk_level), 0, 100)
\* mutant: the score bands are tried before the critical flags
DetermineRecommendation_ScoreFirst(score, critical_flags) ==
    IF score >= 80 THEN "INVEST"
    ELSE IF score >= 65 THEN "STRONG CONSIDER"
    ELSE IF score >= 50 THEN "CONSIDER"
    ELSE "PASS"

\* mutant: the lower bound of the STRONG CONSIDER band is exclusive
DetermineRecommendation_Exclusive(score, critical_flags) ==
    IF Len(critical_flags) > 0 THEN "PASS"
    ELSE IF score >= 80 THEN "INVEST"
    ELSE IF score > 65 THEN "STRONG CONSIDER"
    ELSE IF score >= 50 THEN "CONSIDER"
    ELSE "PASS"

DetermineRecommendation(score, critical_flags) ==
    IF Len(critical_flags) > 0 THEN "PASS"
    ELSE IF score >= 80 THEN "INVEST"
    ELSE IF score >= 65 THEN "STRONG CONSIDER"
    ELSE IF score >= 50 THEN "CONSIDER"
    ELSE "PASS"

(***************************************************************************)
(* The parsers and the scoring functions applied to bounded inputs: each   *)
(* specification below draws arg in its Init, and a call step applies one  *)
(* function of the code to it.                                             *)
(***************************************************************************)
Absent == [present |-> FALSE]

PipelineIdle ==
    /\ pc = "idle"
    /\ company_data = Absent
    /\ market_analysis = Absent
    /\ team_assessment = Absent
    /\ financial_analysis = Absent
    /\ risk_assessment = Absent
    /\ final_score = 0
    /\ memo_result = Absent
    /\ store = Absent
    /\ result = Absent
    /\ calls = <<>>

\* the texts made of at most n of the given pieces
Texts(tokens, n) == {Flatten(ts) : ts \in SeqsUpTo(tokens, n)}

\* the texts made of at most n of the given lines
TextsOfLines(lines, n) == {JoinLines(ls) : ls \in SeqsUpTo(lines, n)}

TAM == <<"T", "A", "M">>

HR == <<"H", "R">>

SectionTokens == {TAM, <<NL>>, <<" ">>, <<"a">>, <<"1">>, <<"2">>}

SectionInputs ==
    [text : Texts(SectionTokens, MaxSectionTokens),
     section_name : {TAM, <<"a">>}]

ScoreTokens ==
    { <<"0">>, <<"1">>, <<" ">>,
      <<"/", "2", "5">>,
      <<"P", "o", "i", "n", "t", "s">>,
      <<"o", "u", "t", " ", "o", "f", " ", "2", "5">> }

ScoreInputs ==
    [text : Texts(ScoreTokens, MaxScoreTokens), section_name : {TAM}]

ListLines ==
    { HR,
      <<"-", " ", "a">>,
      <<"*", "b">>,
      <<"u2022", " ", "c">>,
      <<"u00E2", "u20AC", "u00A2", " ", "d">>,
      <<" ", "e">>,
      <<>>,
      <<"2", ".", " ", "X">>,
      <<"2", " ", "f", ".", "g">> }

ListInputs ==
    [text : TextsOfLines(ListLines, MaxListLines), section_name : {HR}]

ParseTokens ==
    {TAM, <<NL>>, <<"a">>, <<"-", " ", "b">>, <<"1">>, <<"/", "2", "5">>}

ParseInputs ==
    [text : Texts(ParseTokens, MaxParseTokens), section_name : {TAM}]

ExtractSectionCall ==
    /\ op = "none"
    /\ op' = "_extract_section"
    /\ ret' = ExtractSection(arg.text, arg.section_name)
    /\ UNCHANGED <<arg, pipelineVars>>

ExtractScoreCall ==
    /\ op = "none"
    /\ op' = "_extract_score"
    /\ ret' = ExtractScore(arg.text)
    /\ UNCHANGED <<arg, pipelineVars>>

ExtractListSectionCall ==
    /\ op = "none"
    /\ op' = "_extract_list_section"
    /\ ret' = ExtractListSection(arg.text, arg.section_name)
    /\ UNCHANGED <<arg, pipelineVars>>

InitSection == arg \in SectionInputs /\ op = "none" /\ ret = <<>> /\ PipelineIdle

NextSection == ExtractSectionCall

SpecSection == InitSection /\ [][NextSection]_vars

InitScore == arg \in ScoreInputs /\ op = "none" /\ ret = <<>> /\ PipelineIdle

NextScore == ExtractScoreCall

SpecScore == InitScore /\ [][NextScore]_vars

InitList == arg \in ListInputs /\ op = "none" /\ ret = <<>> /\ PipelineIdle

NextList == ExtractListSectionCall

SpecList == InitList /\ [][NextList]_vars

InitParse == arg \in ParseInputs /\ op = "none" /\ ret = <<>> /\ PipelineIdle

NextParse == ExtractSectionCall \/ ExtractScoreCall \/ ExtractListSectionCall

SpecParse == InitParse /\ [][NextParse]_vars

(***************************************************************************)
(* Inputs of the scoring functions.  _calculate_final_score adds whatever  *)
(* integers and risk level the analyses hold; the values outside 0..25 and *)
(* the level "UNKNOWN" make its clamp and its default happen.              *)
(***************************************************************************)
Flags == {NoneIdentified, <<"f">>, <<"g">>}

StageScoreInputs == {-40, 0, 10, 15, 18, 20, 22, 25, 60}

FinalScoreInputs ==
    [kind : {"final_score"},
     market_score : StageScoreInputs,
     team_score : StageScoreInputs,
     financial_score : StageScoreInputs,
     risk_level : RiskLevels \cup {"UNKNOWN"}]

RecommendationInputs ==
    [kind : {"recommendation"},
     final_score : 0..100,
     critical_flags : SeqsUpTo({<<"f">>, <<"g">>}, MaxFlags)]

RiskInputs ==
    [kind : {"risk"},
     critical_flags : SeqsUpTo(Flags, MaxFlags),
     high_risks : SeqsUpTo(Flags, MaxHigh)]

CalculateFinalScoreCall ==
    /\ op = "none"
    /\ arg.kind = "final_score"
    /\ op' = "_calculate_final_score"
    /\ ret' = CalculateFinalScore(arg.market_score, arg.team_score,
                                  arg.financial_score, arg.risk_level)
    /\ UNCHANGED <<arg, pipelineVars>>

DetermineRecommendationCall ==
    /\ op = "none"
    /\ arg.kind = "recommendation"
    /\ op' = "_determine_recommendation"
    /\ ret' = DetermineRecommendation(arg.final_score, arg.critical_flags)
    /\ UNCHANGED <<arg, pipelineVars>>

RiskResultCall ==
    /\ op = "none"
    /\ arg.kind = "risk"
    /\ op' = "risk_result"
    /\ ret' = RiskResult([critical_flags |-> arg.critical_flags,
                          high_risks |-> arg.high_risks])
    /\ UNCHANGED <<arg, pipelineVars>>

InitScoring ==
    /\ arg \in FinalScoreInputs \cup RecommendationInputs \cup RiskInputs
    /\ op = "none"
    /\ ret = <<>>
    /\ PipelineIdle

NextScoring ==
    \/ CalculateFinalScoreCall
    \/ DetermineRecommendationCall
    \/ RiskResultCall

SpecScoring == InitScoring /\ [][NextScoring]_vars

(***************************************************************************)
(* The pipeline: one run of VentureScopeOrchestrator.analyze_pitch_deck.   *)
(* The language model is an input: each generate call either raises or     *)
(* returns one of a bounded set of texts, which the agent's own parser     *)
(* then reads.                                                             *)
(***************************************************************************)
CriticalRedFlags ==
    <<"C", "R", "I", "T", "I", "C", "A", "L", " ", "R", "E", "D", " ",
      "F", "L", "A", "G", "S">>

HighRisks == <<"H", "I", "G", "H", " ", "R", "I", "S", "K", "S">>

MediumRisks == <<"M", "E", "D", "I", "U", "M", " ", "R", "I", "S", "K", "S">>

LowRisks == <<"L", "O", "W", " ", "R", "I", "S", "K", "S">>

RiskMitigation ==
    <<"R", "I", "S", "K", " ", "M", "I", "T", "I", "G", "A", "T", "I", "O", "N">>

AnalysisFailed ==
    <<"A", "n", "a", "l", "y", "s", "i", "s", " ", "f", "a", "i", "l", "e", "d",
      " ", "-", " ", "u", "n", "a", "b", "l", "e", " ", "t", "o", " ",
      "a", "s", "s", "e", "s", "s", " ", "r", "i", "s", "k", "s">>

\* the lines a risk response is made of
RiskLines ==
    { <<"1", ".", " ">> \o CriticalRedFlags \o <<":">>,
      <<"2", ".", " ">> \o HighRisks \o <<":">>,
      <<"-", " ", "a">>,
      NoneIdentified }

RiskTexts == TextsOfLines(RiskLines, MaxRiskLines)

\* the pieces a market, team or financial response is made of
StageTokens == {<<"2">>, <<"9">>, <<"/", "2", "5">>}

StageTexts == Texts(StageTokens, MaxStageTokens)

\* the try block of _generate_market_analysis (and of its team and
\* financial twins) on a response, and its except block
GenerateAnalysis(response) == [score |-> ExtractScore(response), error |-> FALSE]

GenerateAnalysisFailed == [score |-> DefaultScore, error |-> TRUE]

StageGenerations ==
    {GenerateAnalysis(t) : t \in StageTexts} \cup {GenerateAnalysisFailed}

\* the try block of _generate_risk_assessment on a response, and its except
GenerateRiskAssessment(response) ==
    [ critical_flags |-> ExtractListSection(response, CriticalRedFlags),
      high_risks |-> ExtractListSection(response, HighRisks),
      medium_risks |-> ExtractListSection(response, MediumRisks),
      low_risks |-> ExtractListSection(response, LowRisks),
      mitigation |-> ExtractListSection(response, RiskMitigation),
      error |-> FALSE ]

\* mutant: the except block reports no critical flag
GenerateRiskAssessmentFailed_NoFlag ==
    [ critical_flags |-> <<>>,
      high_risks |-> <<>>,
      medium_risks |-> <<>>,
      low_risks |-> <<>>,
      mitigation |-> <<>>,
      error |-> TRUE ]

GenerateRiskAssessmentFailed ==
    [ critical_flags |-> <<AnalysisFailed>>,
      high_risks |-> <<>>,
      medium_risks |-> <<>>,
      low_risks |-> <<>>,
      mitigation |-> <<>>,
      error |-> TRUE ]

RiskGenerations ==
    {GenerateRiskAssessment(t) : t \in RiskTexts}
        \cup {GenerateRiskAssessmentFailed}

\* what the document stage hands on: whether the enhancement failed, how
\* many members _parse_team_members finds in the team field and which of
\* the revenue and growth patterns _parse_financial_metrics finds in the
\* traction field.  The fallback profile names no member and no metric.
DocumentResults ==
    [present : {TRUE}, error : {FALSE}, team_members : 0..MaxTeam,
     revenue : BOOLEAN, growth_rate : BOOLEAN]
        \cup {[present |-> TRUE, error |-> TRUE, team_members |-> 0,
               revenue |-> FALSE, growth_rate |-> FALSE]}

Raise(exception) ==
    /\ pc' = "raised"
    /\ result' = [present |-> FALSE, raised |-> exception]

\* mutant: the path is looked at only after the document stage was invoked
CheckPath_AfterDocument ==
    /\ pc = "start"
    /\ \/ /\ pc' = "document"
          /\ UNCHANGED <<result, calls>>
       \/ /\ Raise("FileNotFoundError")
          /\ calls' = Append(calls, "document")
    /\ UNCHANGED <<funVars, company_data, market_analysis, team_assessment,
                   financial_analysis, risk_assessment, final_score,
                   memo_result, store>>

\* lines 59-62
CheckPath ==
    /\ pc = "start"
    /\ \/ /\ pc' = "document"
          /\ UNCHANGED result
       \/ Raise("FileNotFoundError")
    /\ UNCHANGED <<funVars, company_data, market_analysis, team_assessment,
                   financial_analysis, risk_assessment, final_score,
                   memo_result, store, calls>>

\* lines 65-69: the extractor may raise, the enhancement falls back
DocumentStage ==
    /\ pc = "document"
    /\ calls' = Append(calls, "document")
    /\ \/ /\ \E d \in DocumentResults : company_data' = d
          /\ pc' = "market"
          /\ UNCHANGED result
       \/ /\ Raise("ExtractionError")
          /\ UNCHANGED company_data
    /\ UNCHANGED <<funVars, market_analysis, team_assessment,
                   financial_analysis, risk_assessment, final_score,
                   memo_result, store>>

\* mutant: a failed generation is raised instead of replaced by the fallback
MarketStage_Raises ==
    /\ pc = "market"
    /\ calls' = Append(calls, "market")
    /\ \E analysis \in StageGenerations :
          IF analysis.error
          THEN Raise("RuntimeError") /\ UNCHANGED market_analysis
          ELSE /\ market_analysis' =
                      [present |-> TRUE, analysis |-> analysis,
                       score |-> CalculateMarketScore(analysis.score)]
               /\ pc' = "team"
               /\ UNCHANGED result
    /\ UNCHANGED <<funVars, company_data, team_assessment, financial_analysis,
                   risk_assessment, final_score, memo_result, store>>

\* line 75
MarketStage ==
    /\ pc = "market"
    /\ calls' = Append(calls, "market")
    /\ \E analysis \in StageGenerations :
          market_analysis' =
              [present |-> TRUE, analysis |-> analysis,
               score |-> CalculateMarketScore(analysis.score)]
    /\ pc' = "team"
    /\ UNCHANGED <<funVars, company_data, team_assessment, financial_analysis,
                   risk_assessment, final_score, memo_result, store, result>>

\* mutant: the team stage may be invoked again
TeamStage_Repeat ==
    /\ pc = "team"
    /\ calls' = Append(calls, "team")
    /\ \E assessment \in StageGenerations :
          team_assessment' =
              [present |-> TRUE, assessment |-> assessment,
               score |-> CalculateTeamScore(assessment.score,
                                            company_data.team_members)]
    /\ pc' \in {"team", "financial"}
    /\ UNCHANGED <<funVars, company_data, market_analysis, financial_analysis,
                   risk_assessment, final_score, memo_result, store, result>>

\* line 79
TeamStage ==
    /\ pc = "team"
    /\ calls' = Append(calls, "team")
    /\ \E assessment \in StageGenerations :
          team_assessment' =
              [present |-> TRUE, assessment |-> assessment,
               score |-> CalculateTeamScore(assessment.score,
                                            company_data.team_members)]
    /\ pc' = "financial"
    /\ UNCHANGED <<funVars, company_data, market_analysis, financial_analysis,
                   risk_assessment, final_score, memo_result, store, result>>

\* line 83
FinancialStage ==
    /\ pc = "financial"
    /\ calls' = Append(calls, "financial")
    /\ \E analysis \in StageGenerations :
          financial_analysis' =
              [present |-> TRUE, analysis |-> analysis,
               score |-> CalculateFinancialScore(analysis.score,
                                                 company_data.revenue,
                                                 company_data.growth_rate)]
    /\ pc' = "risk"
    /\ UNCHANGED <<funVars, company_data, market_analysis, team_assessment,
                   risk_assessment, final_score, memo_result, store, result>>

\* lines 93-97
RiskStage ==
    /\ pc = "risk"
    /\ calls' = Append(calls, "risk")
    /\ \E assessment \in RiskGenerations :
          risk_assessment' = RiskResult(assessment) @@ [present |-> TRUE]
    /\ pc' = "score"
    /\ UNCHANGED <<funVars, company_data, market_analysis, team_assessment,
                   financial_analysis, final_score, memo_result, store, result>>

\* line 100
ScoreStep ==
    /\ pc = "score"
    /\ calls' = Append(calls, "score")
    /\ final_score' = CalculateFinalScore(market_analysis.score,
                                          team_assessment.score,
                                          financial_analysis.score,
                                          risk_assessment.risk_level)
    /\ pc' = "memo"
    /\ UNCHANGED <<funVars, company_data, market_analysis, team_assessment,
                   financial_analysis, risk_assessment, memo_result, store,
                   result>>

\* lines 104-108: MemoGeneratorAgent.process; the memo is the generated
\* text or the fallback template, which prints the score and recommendation
MemoStage ==
    /\ pc = "memo"
    /\ calls' = Append(calls, "memo")
    /\ LET recommendation ==
               DetermineRecommendation(final_score,
                                       risk_assessment.critical_flags)
       IN  \E memo \in {[kind |-> "generated", final_score |-> -1,
                         recommendation |-> "none"],
                        [kind |-> "fallback", final_score |-> final_score,
                         recommendation |-> recommendation]} :
               memo_result' = [present |-> TRUE, memo |-> memo,
                               recommendation |-> recommendation,
                               final_score |-> final_score]
    /\ pc' = "save_structured"
    /\ UNCHANGED <<funVars, company_data, market_analysis, team_assessment,
                   financial_analysis, risk_assessment, final_score, store,
                   result>>

NoArtifacts == [present |-> TRUE, structured |-> Absent, analysis |-> Absent,
                memo |-> Absent]

\* lines 109-113: each save writes its file or raises
SaveStructured ==
    /\ pc = "save_structured"
    /\ calls' = Append(calls, "save_structured")
    /\ \/ /\ store' = [store EXCEPT !.structured = company_data]
          /\ pc' = "save_analysis"
          /\ UNCHANGED result
       \/ /\ Raise("OSError")
          /\ UNCHANGED store
    /\ UNCHANGED <<funVars, company_data, market_analysis, team_assessment,
                   financial_analysis, risk_assessment, final_score,
                   memo_result>>

\* mutant: the analyses are not written
SaveAnalysis_Skip ==
    /\ pc = "save_analysis"
    /\ calls' = Append(calls, "save_analysis")
    /\ \/ /\ pc' = "save_memo"
          /\ UNCHANGED <<result, store>>
       \/ /\ Raise("OSError")
          /\ UNCHANGED store
    /\ UNCHANGED <<funVars, company_data, market_analysis, team_assessment,
                   financial_analysis, risk_assessment, final_score,
                   memo_result>>

SaveAnalysis ==
    /\ pc = "save_analysis"
    /\ calls' = Append(calls, "save_analysis")
    /\ \/ /\ store' = [store EXCEPT !.analysis =
                          [present |-> TRUE, market |-> market_analysis,
                           team |-> team_assessment,
                           financial |-> financial_analysis,
                           risk |-> risk_assessment]]
          /\ pc' = "save_memo"
          /\ UNCHANGED result
       \/ /\ Raise("OSError")
          /\ UNCHANGED store
    /\ UNCHANGED <<funVars, company_data, market_analysis, team_assessment,
                   financial_analysis, risk_assessment, final_score,
                   memo_result>>

SaveMemo ==
    /\ pc = "save_memo"
    /\ calls' = Append(calls, "save_memo")
    /\ \/ /\ store' = [store EXCEPT !.memo = memo_result.memo @@ [present |-> TRUE]]
          /\ pc' = "return"
          /\ UNCHANGED result
       \/ /\ Raise("OSError")
          /\ UNCHANGED store
    /\ UNCHANGED <<funVars, company_data, market_analysis, team_assessment,
                   financial_analysis, risk_assessment, final_score,
                   memo_result>>

\* lines 116-145
Return ==
    /\ pc = "return"
    /\ result' =
          [ present |-> TRUE,
            final_score |-> final_score,
            recommendation |-> memo_result.recommendation,
            memo |-> memo_result.memo,
            analyses |-> [document |-> company_data,
                          market |-> market_analysis,
                          team |-> team_assessment,
                          financial |-> financial_analysis,
                          risk |-> risk_assessment],
            scores |-> [market |-> market_analysis.score,
                        team |-> team_assessment.score,
                        financial |-> financial_analysis.score,
                        total |-> final_score] ]
    /\ pc' = "done"
    /\ UNCHANGED <<funVars, company_data, market_analysis, team_assessment,
                   financial_analysis, risk_assessment, final_score,
                   memo_result, store, calls>>

Init ==
    /\ arg = <<>>
    /\ op = "pipeline"
    /\ ret = <<>>
    /\ pc = "start"
    /\ company_data = Absent
    /\ market_analysis = Absent
    /\ team_assessment = Absent
    /\ financial_analysis = Absent
    /\ risk_assessment = Absent
    /\ final_score = 0
    /\ memo_result = Absent
    /\ store = NoArtifacts
    /\ result = Absent
    /\ calls = <<>>

Next ==
    \/ CheckPath
    \/ DocumentStage
    \/ MarketStage
    \/ TeamStage
    \/ FinancialStage
    \/ RiskStage
    \/ ScoreStep
    \/ MemoStage
    \/ SaveStructured
    \/ SaveAnalysis
    \/ SaveMemo
    \/ Return

Spec == Init /\ [][Next]_vars

(***************************************************************************)
(* Properties.                                                             *)
(***************************************************************************)
Rank(recommendation) ==
    CASE recommendation = "PASS" -> 0
      [] recommendation = "CONSIDER" -> 1
      [] recommendation = "STRONG CONSIDER" -> 2
      [] recommendation = "INVEST" -> 3

\* the number of entries of a list that are not the sentinel
NonSentinel(flags) ==
    Cardinality({k \in 1..Len(flags) : flags[k] # NoneIdentified})

\* C1: in every run, whatever the language model returned or however it
\* failed, the market, team and financial scores are integers in 0..25 and
\* the final score is an integer in 0..100.
C1_ScoreBounds ==
    /\ market_analysis.present => market_analysis.score \in 0..25
    /\ team_assessment.present => team_assessment.score \in 0..25
    /\ financial_analysis.present => financial_analysis.score \in 0..25
    /\ final_score \in 0..100
    /\ result.present =>
          /\ result.final_score \in 0..100
          /\ result.scores.market \in 0..25
          /\ result.scores.team \in 0..25
          /\ result.scores.financial \in 0..25
          /\ result.scores.total \in 0..100

\* a run returned with a failed team generation and a top market score
C1_Witness ==
    /\ result.present
    /\ team_assessment.assessment.error
    /\ result.scores.market = 25
    /\ result.scores.team = 17

\* C2: with a non-empty list of critical flags the recommendation is PASS,
\* for every final score in 0..100.
C2_Veto ==
    (op = "_determine_recommendation" /\ Len(arg.critical_flags) > 0)
        => ret = "PASS"

\* a score of 100 vetoed by one critical flag
C2_Witness ==
    /\ op = "_determine_recommendation"
    /\ arg.final_score = 100
    /\ arg.critical_flags = <<(<<"f">>)>>
    /\ ret = "PASS"

\* C3: without critical flags the recommendation is INVEST from 80,
\* STRONG CONSIDER for 65..79, CONSIDER for 50..64 and PASS below 50, and no
\* lower score gets a higher recommendation.
C3_Bands ==
    (op = "_determine_recommendation" /\ arg.critical_flags = <<>>) =>
        /\ arg.final_score >= 80 => ret = "INVEST"
        /\ arg.final_score \in 65..79 => ret = "STRONG CONSIDER"
        /\ arg.final_score \in 50..64 => ret = "CONSIDER"
        /\ arg.final_score < 50 => ret = "PASS"
        /\ \A lower \in 0..arg.final_score :
              Rank(DetermineRecommendation(lower, <<>>)) <= Rank(ret)

\* the lowest score of the STRONG CONSIDER band
C3_Witness ==
    /\ op = "_determine_recommendation"
    /\ arg.critical_flags = <<>>
    /\ arg.final_score = 65
    /\ ret = "STRONG CONSIDER"

\* C4: the final score is market + team + financial + execution brought
\* into 0..100, with execution 25 for LOW, 18 for MEDIUM, 12 for HIGH, 5 for
\* CRITICAL and 15 for any other level; 20, 22, 18 and LOW give 85.
C4_FinalScore ==
    op = "_calculate_final_score" =>
        LET execution ==
                IF arg.risk_level = "LOW" THEN 25
                ELSE IF arg.risk_level = "MEDIUM" THEN 18
                ELSE IF arg.risk_level = "HIGH" THEN 12
                ELSE IF arg.risk_level = "CRITICAL" THEN 5
                ELSE 15
            total == arg.market_score + arg.team_score
                         + arg.financial_score + execution
        IN  /\ total < 0 => ret = 0
            /\ total > 100 => ret = 100
            /\ total \in 0..100 => ret = total
            /\ ( /\ arg.market_score = 20
                 /\ arg.team_score = 22
                 /\ arg.financial_score = 18
                 /\ arg.risk_level = "LOW" ) => ret = 85

\* an unrecognised risk level scored with the default of 15
C4_Witness ==
    /\ op = "_calculate_final_score"
    /\ arg.risk_level = "UNKNOWN"
    /\ arg.market_score = 20
    /\ arg.team_score = 22
    /\ arg.financial_score = 18
    /\ ret = 75

\* C5: the risk level is CRITICAL if a critical flag differs from the
\* sentinel; else HIGH with at least 3 high risks that differ from it; else
\* MEDIUM with at least 1; else LOW.
C5_RiskLevel ==
    op = "risk_result" =>
        ret.risk_level =
            IF NonSentinel(arg.critical_flags) > 0 THEN "CRITICAL"
            ELSE IF NonSentinel(arg.high_risks) >= 3 THEN "HIGH"
            ELSE IF NonSentinel(arg.high_risks) >= 1 THEN "MEDIUM"
            ELSE "LOW"

\* two real high risks among three entries, below the HIGH threshold
C5_Witness ==
    /\ op = "risk_result"
    /\ arg.critical_flags = <<NoneIdentified>>
    /\ Len(arg.high_risks) = 3
    /\ NonSentinel(arg.high_risks) = 2
    /\ ret.risk_level = "MEDIUM"

\* C6: the critical flags of a risk result never hold the sentinel, the
\* risk level is CRITICAL exactly when they are non-empty, and a returned
\* result with risk level CRITICAL recommends PASS.
C6_CriticalFlags ==
    /\ risk_assessment.present =>
          /\ \A k \in 1..Len(risk_assessment.critical_flags) :
                risk_assessment.critical_flags[k] # NoneIdentified
          /\ risk_assessment.risk_level = "CRITICAL"
                <=> risk_assessment.critical_flags # <<>>
    /\ (result.present /\ result.analyses.risk.risk_level = "CRITICAL")
          => result.recommendation = "PASS"

\* a returned result whose score alone would have earned INVEST
C6_Witness ==
    /\ result.present
    /\ result.analyses.risk.risk_level = "CRITICAL"
    /\ ~result.analyses.risk.risk_assessment.error
    /\ result.final_score = 80
    /\ result.recommendation = "PASS"

\* the lines of the text that hold the header
HeaderLines(text, section_name) ==
    {i \in 1..Len(SplitLines(text)) :
        Contains(SplitLines(text)[i], section_name)}

\* C7: section extraction returns the first non-empty line after the first
\* line that holds the header, and "Not specified" exactly when the header
\* is absent or only empty lines follow it.
C7_FirstNonEmptyLine ==
    op = "_extract_section" =>
        LET lines == SplitLines(arg.text)
            headers == HeaderLines(arg.text, arg.section_name)
            following ==
                IF headers = {} THEN {}
                ELSE {j \in (Min(headers) + 1)..Len(lines) :
                         Strip(lines[j]) # <<>>}
        IN  /\ following # {} => ret = Strip(lines[Min(following)])
            /\ following = {} <=> ret = NotSpecified

\* the text holds digits at i..k followed, after optional whitespace, by
\* "/25", "points" or "out of 25" in any case
NumberWithSuffix(text, i, k) ==
    /\ i <= k
    /\ k < Len(text)
    /\ \A d \in i..k : IsDigit(text[d])
    /\ \E p \in (k + 1)..Len(text) :
          /\ \A w \in (k + 1)..(p - 1) : text[w] \in Whitespace
          /\ \E suf \in ScoreSuffixes :
                /\ p + Len(suf) - 1 <= Len(text)
                /\ [n \in 1..Len(suf) |-> Lower(text[p + n - 1])] = suf

\* the occurrences of a number of at most maxDigits digits with a suffix
Occurrences(text, maxDigits) ==
    {m \in (1..Len(text)) \X (1..Len(text)) :
        /\ m[2] - m[1] < maxDigits
        /\ NumberWithSuffix(text, m[1], m[2])}

\* C8: on a text without the header section extraction returns
\* "Not specified" and list extraction ["None identified"], and on a text
\* without a score pattern score extraction returns 15; no case raises.
C8_Sentinels ==
    /\ (op = "_extract_section" /\ ~Contains(arg.text, arg.section_name))
          => ret = NotSpecified
    /\ (op = "_extract_list_section" /\ ~Contains(arg.text, arg.section_name))
          => ret = <<NoneIdentified>>
    /\ (op = "_extract_score" /\ Occurrences(arg.text, 3) = {})
          => ret = 15

\* a bullet line that no header precedes yields the sentinel list
C8_Witness ==
    /\ op = "_extract_list_section"
    /\ arg.text = <<"a", NL, "-", " ", "b">>
    /\ ret = <<NoneIdentified>>

\* C9 as stated: the value of the first occurrence of a number of one to
\* three digits followed by a suffix, clamped to 0..25.
C9_FirstShortNumber ==
    (op = "_extract_score" /\ Occurrences(arg.text, 3) # {}) =>
        LET occ == Occurrences(arg.text, 3)
            i == Min({m[1] : m \in occ})
            k == Max({m[2] : m \in {n \in occ : n[1] = i}})
            value == ToInt(SubSeq(arg.text, i, k))
        IN  ret = IF value > 25 THEN 25 ELSE value

\* C9 as amended: the value of the first number, of any count of digits,
\* that a suffix follows, clamped to 0..25; the number is the whole run of
\* digits.
C9_FirstNumber ==
    (op = "_extract_score" /\ Occurrences(arg.text, Len(arg.text)) # {}) =>
        LET occ == Occurrences(arg.text, Len(arg.text))
            i == Min({m[1] : m \in occ})
            k == Max({e \in i..Len(arg.text) :
                         \A d \in i..e : IsDigit(arg.text[d])})
            value == ToInt(SubSeq(arg.text, i, k))
        IN  ret = IF value > 25 THEN 25 ELSE value

\* "1000/25": four digits, read as 1000 and clamped to 25
C9_Witness ==
    /\ op = "_extract_score"
    /\ arg.text = <<"1", "0", "0", "0", "/", "2", "5">>
    /\ ret = 25

\* the line, stripped, starts with digits and a full stop
NumberedHeader(line) ==
    \E n \in 1..(Len(Strip(line)) - 1) :
        /\ \A d \in 1..n : IsDigit(Strip(line)[d])
        /\ Strip(line)[n + 1] = "."

\* the line, stripped, starts with "-", "*" or the bullet U+2022
BulletPrefixed(line) ==
    /\ Strip(line) # <<>>
    /\ Strip(line)[1] \in {"-", "*", "u2022"}

\* C10: list extraction collects the lines after the header up to the first
\* line that begins with "<digits>."; every collected line prefixed with
\* "-", "*" or a bullet glyph is one item, its prefix stripped (an item
\* without prefix may precede them); without items the result is
\* ["None identified"].
C10_ListItems ==
    op = "_extract_list_section" =>
        LET lines == SplitLines(arg.text)
            headers == HeaderLines(arg.text, arg.section_name)
            after == IF headers = {} THEN {}
                     ELSE (Min(headers) + 1)..Len(lines)
            stops == {j \in after : NumberedHeader(lines[j])}
            collected == {j \in after : \A st \in stops : j < st}
            bullets == {j \in collected : BulletPrefixed(lines[j])}
            nth(n) == CHOOSE j \in bullets :
                          Cardinality({x \in bullets : x <= j}) = n
            bulletItems == [n \in 1..Cardinality(bullets) |->
                               Strip(Tail(Strip(lines[nth(n)])))]
            firstItems ==
                {<<>>} \cup {<<Strip(lines[j])>> : j \in
                                {x \in collected \ bullets :
                                    Strip(lines[x]) # <<>>}}
        IN  \E first \in firstItems :
                ret = IF first \o bulletItems = <<>>
                      THEN <<NoneIdentified>>
                      ELSE first \o bulletItems

\* C11: in list extraction a non-empty line without a bullet prefix becomes
\* an item only when it is the line right after the header (no other
\* non-empty line between them), no item has been collected yet and it does
\* not look like a numbered header; every other unprefixed line is left
\* out, so the result is that one line, if any, followed by the items of
\* the bullet-prefixed lines.
C11_ImplicitFirstItem ==
    op = "_extract_list_section" =>
        LET lines == SplitLines(arg.text)
            headers == HeaderLines(arg.text, arg.section_name)
            after == IF headers = {} THEN {}
                     ELSE (Min(headers) + 1)..Len(lines)
            stops == {j \in after : NumberedHeader(lines[j])}
            collected == {j \in after \ headers : \A st \in stops : j < st}
            content == {j \in collected : Strip(lines[j]) # <<>>}
            bullets == {j \in content : BulletPrefixed(lines[j])}
            nth(n) == CHOOSE j \in bullets :
                          Cardinality({x \in bullets : x <= j}) = n
            bulletItems == [n \in 1..Cardinality(bullets) |->
                               Strip(Tail(Strip(lines[nth(n)])))]
            implicit == {j \in content \ bullets :
                            /\ \A x \in content : j <= x
                            /\ ~NumberedHeader(lines[j])}
            first == IF implicit = {} THEN <<>>
                     ELSE <<Strip(lines[CHOOSE j \in implicit : TRUE])>>
        IN  ret = IF first \o bulletItems = <<>>
                  THEN <<NoneIdentified>>
                  ELSE first \o bulletItems

(***************************************************************************)
(* The market, team and financial stages: process() with its web searches  *)
(* and its LLM generation.  A list of search results is modelled by its    *)
(* length, an exception by the text str(e) gives.                          *)
(***************************************************************************)
MaxProcessLines == 2

TamValidation ==
    <<"T", "A", "M", " ", "V", "a", "l", "i", "d", "a", "t", "i", "o", "n">>

MarketGrowth ==
    <<"M", "a", "r", "k", "e", "t", " ", "G", "r", "o", "w", "t", "h">>

CompetitivePosition ==
    <<"C", "o", "m", "p", "e", "t", "i", "t", "i", "v", "e", " ", "P", "o",
      "s", "i", "t", "i", "o", "n">>

MarketRisks ==
    <<"M", "a", "r", "k", "e", "t", " ", "R", "i", "s", "k", "s">>

TeamStrengths ==
    <<"T", "e", "a", "m", " ", "S", "t", "r", "e", "n", "g", "t", "h", "s">>

ExperienceRelevance ==
    <<"E", "x", "p", "e", "r", "i", "e", "n", "c", "e", " ", "R", "e", "l",
      "e", "v", "a", "n", "c", "e">>

TeamGaps ==
    <<"T", "e", "a", "m", " ", "G", "a", "p", "s">>

ExecutionCapability ==
    <<"E", "x", "e", "c", "u", "t", "i", "o", "n", " ", "C", "a", "p", "a",
      "b", "i", "l", "i", "t", "y">>

RevenueValidation ==
    <<"R", "e", "v", "e", "n", "u", "e", " ", "V", "a", "l", "i", "d", "a",
      "t", "i", "o", "n">>

UnitEconomics ==
    <<"U", "n", "i", "t", " ", "E", "c", "o", "n", "o", "m", "i", "c", "s">>

GrowthAssumptions ==
    <<"G", "r", "o", "w", "t", "h", " ", "A", "s", "s", "u", "m", "p", "t",
      "i", "o", "n", "s">>

FinancialRisks ==
    <<"F", "i", "n", "a", "n", "c", "i", "a", "l", " ", "R", "i", "s", "k",
      "s">>

UnableToValidate ==
    <<"U", "n", "a", "b", "l", "e", " ", "t", "o", " ", "v", "a", "l", "i",
      "d", "a", "t", "e">>

DataUnavailable ==
    <<"D", "a", "t", "a", " ", "u", "n", "a", "v", "a", "i", "l", "a", "b",
      "l", "e">>

Unclear ==
    <<"U", "n", "c", "l", "e", "a", "r">>

AnalysisFailedPlaceholder ==
    <<"A", "n", "a", "l", "y", "s", "i", "s", " ", "f", "a", "i", "l", "e",
      "d">>

UnableToAssess ==
    <<"U", "n", "a", "b", "l", "e", " ", "t", "o", " ", "a", "s", "s", "e",
      "s", "s">>

Unknown ==
    <<"U", "n", "k", "n", "o", "w", "n">>

\* the lines a stage response is made of
ProcessLines ==
    { <<"1", ".", " ">> \o TamValidation \o <<":">>,
      <<"1", ".", " ">> \o TeamStrengths \o <<":">>,
      <<"1", ".", " ">> \o RevenueValidation \o <<":">>,
      <<"L", "a", "r", "g", "e">>,
      <<"2", "0", "/", "2", "5">> }

\* str(e) of the exceptions the LLM client raises
ErrorTexts == {"timeout", "rate limit exceeded"}

\* llm_client.generate: a response, or an exception after the retries
LlmOutcomes ==
    [ok : {TRUE}, response : TextsOfLines(ProcessLines, MaxProcessLines),
     error : {""}]
        \cup [ok : {FALSE}, response : {<<>>}, error : ErrorTexts]

\* session.get and raise_for_status: a page with some results, or an exception
HttpOutcomes ==
    {[ok |-> TRUE, results |-> 5], [ok |-> TRUE, results |-> 2],
     [ok |-> FALSE, results |-> 0]}

DuckDuckGoSearch(http, max_results) ==
    IF http.ok THEN Min({http.results, max_results}) ELSE 0

SearchMarketSize(http) == [sources |-> DuckDuckGoSearch(http, 3)]

SearchCompetitors(http) == DuckDuckGoSearch(http, 5)

SearchFounder(http) == [search_results |-> DuckDuckGoSearch(http, 3)]

ResearchCompetitors(http) ==
    [ discovered_competitors |-> Min({SearchCompetitors(http), 5}),
      competitive_intensity |->
          IF SearchCompetitors(http) > 3 THEN "High" ELSE "Medium" ]

\* mutant: the except branch keeps no error text
GenerateMarketAnalysis_NoError(llm) ==
    IF llm.ok
    THEN [ tam_validation |-> ExtractSection(llm.response, TamValidation),
           market_growth |-> ExtractSection(llm.response, MarketGrowth),
           competitive_position |->
               ExtractSection(llm.response, CompetitivePosition),
           market_risks |-> ExtractSection(llm.response, MarketRisks),
           market_score |-> ExtractScore(llm.response),
           full_analysis |-> llm.response ]
    ELSE [ tam_validation |-> UnableToValidate,
           market_growth |-> DataUnavailable,
           competitive_position |-> Unclear,
           market_risks |-> AnalysisFailedPlaceholder,
           market_score |-> DefaultScore ]

GenerateMarketAnalysis(llm) ==
    IF llm.ok
    THEN [ tam_validation |-> ExtractSection(llm.response, TamValidation),
           market_growth |-> ExtractSection(llm.response, MarketGrowth),
           competitive_position |->
               ExtractSection(llm.response, CompetitivePosition),
           market_risks |-> ExtractSection(llm.response, MarketRisks),
           market_score |-> ExtractScore(llm.response),
           full_analysis |-> llm.response ]
    ELSE [ tam_validation |-> UnableToValidate,
           market_growth |-> DataUnavailable,
           competitive_position |-> Unclear,
           market_risks |-> AnalysisFailedPlaceholder,
           market_score |-> DefaultScore,
           error |-> llm.error ]

GenerateTeamAssessment(llm) ==
    IF llm.ok
    THEN [ team_strengths |-> ExtractSection(llm.response, TeamStrengths),
           experience_relevance |->
               ExtractSection(llm.response, ExperienceRelevance),
           team_gaps |-> ExtractSection(llm.response, TeamGaps),
           execution_capability |->
               ExtractSection(llm.response, ExecutionCapability),
           team_score |-> ExtractScore(llm.response),
           full_assessment |-> llm.response ]
    ELSE [ team_strengths |-> UnableToAssess,
           experience_relevance |-> DataUnavailable,
           team_gaps |-> Unclear,
           execution_capability |-> Unknown,
           team_score |-> DefaultScore,
           error |-> llm.error ]

GenerateFinancialAnalysis(llm) ==
    IF llm.ok
    THEN [ revenue_validation |->
               ExtractSection(llm.response, RevenueValidation),
           unit_economics |-> ExtractSection(llm.response, UnitEconomics),
           growth_assumptions |->
               ExtractSection(llm.response, GrowthAssumptions),
           financial_risks |-> ExtractSection(llm.response, FinancialRisks),
           financial_score |-> ExtractScore(llm.response),
           full_analysis |-> llm.response ]
    ELSE [ revenue_validation |-> UnableToValidate,
           unit_economics |-> DataUnavailable,
           growth_assumptions |-> Unclear,
           financial_risks |-> AnalysisFailedPlaceholder,
           financial_score |-> DefaultScore,
           error |-> llm.error ]

\* a stage's inputs: the outcome of its generation call and of its searches
\* (market size and competitors; the first founder and the later ones), the
\* members parsed from the team text and the metrics parsed from the traction
ProcessInputs ==
    [llm : LlmOutcomes, http : HttpOutcomes, http2 : HttpOutcomes,
     team_members : 0..MaxTeam, revenue : BOOLEAN, growth_rate : BOOLEAN]

MarketProcess ==
    /\ op = "none"
    /\ op' = "market_process"
    /\ ret' = LET analysis == GenerateMarketAnalysis(arg.llm)
              IN  [ market_research |-> SearchMarketSize(arg.http),
                    competitor_research |-> ResearchCompetitors(arg.http2),
                    analysis |-> analysis,
                    score |-> CalculateMarketScore(analysis.market_score) ]
    /\ UNCHANGED <<arg, pipelineVars>>

TeamProcess ==
    /\ op = "none"
    /\ op' = "team_process"
    /\ ret' = LET assessment == GenerateTeamAssessment(arg.llm)
              IN  [ team_members |-> arg.team_members,
                    founder_research |->
                        [i \in 1..Min({arg.team_members, 3}) |->
                            SearchFounder(IF i = 1 THEN arg.http
                                          ELSE arg.http2)],
                    assessment |-> assessment,
                    score |-> CalculateTeamScore(assessment.team_score,
                                                 arg.team_members) ]
    /\ UNCHANGED <<arg, pipelineVars>>

FinancialProcess ==
    /\ op = "none"
    /\ op' = "financial_process"
    /\ ret' = LET analysis == GenerateFinancialAnalysis(arg.llm)
              IN  [ metrics |-> [revenue |-> arg.revenue,
                                 growth_rate |-> arg.growth_rate],
                    analysis |-> analysis,
                    score |-> CalculateFinancialScore(
                                  analysis.financial_score,
                                  arg.revenue, arg.growth_rate) ]
    /\ UNCHANGED <<arg, pipelineVars>>

InitProcess ==
    arg \in ProcessInputs /\ op = "none" /\ ret = <<>> /\ PipelineIdle

NextProcess == MarketProcess \/ TeamProcess \/ FinancialProcess

SpecProcess == InitProcess /\ [][NextProcess]_vars

\* the analysis a stage's process() returned, with its score under one name
StageAnalysis ==
    CASE op = "market_process" ->
             [ narrative |-> <<ret.analysis.tam_validation,
                               ret.analysis.market_growth,
                               ret.analysis.competitive_position,
                               ret.analysis.market_risks>>,
               parsed_score |-> ret.analysis.market_score,
               fields |-> DOMAIN ret.analysis,
               error |-> IF "error" \in DOMAIN ret.analysis
                         THEN ret.analysis.error ELSE "" ]
      [] op = "team_process" ->
             [ narrative |-> <<ret.assessment.team_strengths,
                               ret.assessment.experience_relevance,
                               ret.assessment.team_gaps,
                               ret.assessment.execution_capability>>,
               parsed_score |-> ret.assessment.team_score,
               fields |-> DOMAIN ret.assessment,
               error |-> IF "error" \in DOMAIN ret.assessment
                         THEN ret.assessment.error ELSE "" ]
      [] op = "financial_process" ->
             [ narrative |-> <<ret.analysis.revenue_validation,
                               ret.analysis.unit_economics,
                               ret.analysis.growth_assumptions,
                               ret.analysis.financial_risks>>,
               parsed_score |-> ret.analysis.financial_score,
               fields |-> DOMAIN ret.analysis,
               error |-> IF "error" \in DOMAIN ret.analysis
                         THEN ret.analysis.error ELSE "" ]

\* the fixed placeholders of the stage that ran
StagePlaceholders ==
    CASE op = "market_process" ->
             <<UnableToValidate, DataUnavailable, Unclear,
               AnalysisFailedPlaceholder>>
      [] op = "team_process" ->
             <<UnableToAssess, DataUnavailable, Unclear, Unknown>>
      [] op = "financial_process" ->
             <<UnableToValidate, DataUnavailable, Unclear,
               AnalysisFailedPlaceholder>>

\* one of the web searches the stage made has failed
WebSearchFailed ==
    \/ op = "market_process" /\ (~arg.http.ok \/ ~arg.http2.ok)
    \/ op = "team_process" /\ arg.team_members >= 1 /\ ~arg.http.ok
    \/ op = "team_process" /\ arg.team_members >= 2 /\ ~arg.http2.ok

StageProcessed ==
    op \in {"market_process", "team_process", "financial_process"}

\* C12 as claimed: in the market, team and financial stages a failure of the
\* web search or of the LLM generation call never propagates out of
\* process(): the stage returns a result whose narrative fields are the
\* fixed placeholders, whose parsed score is 15 and which carries the error
\* text in an error field.
C12_StageFallback ==
    StageProcessed /\ (WebSearchFailed \/ ~arg.llm.ok) =>
        /\ "score" \in DOMAIN ret
        /\ StageAnalysis.narrative = StagePlaceholders
        /\ StageAnalysis.parsed_score = 15
        /\ "error" \in StageAnalysis.fields

\* C12 amended: neither failure propagates out of process(); a failure of the
\* LLM generation call gives the fixed placeholders, the parsed score 15 and
\* the error text in an error field, while a failure of a web search alone
\* only leaves that search without results: the result is then built from
\* the LLM response and has no error field.
C12_GenerationFallback ==
    StageProcessed =>
        /\ "score" \in DOMAIN ret
        /\ ~arg.llm.ok =>
               /\ StageAnalysis.narrative = StagePlaceholders
               /\ StageAnalysis.parsed_score = 15
               /\ "error" \in StageAnalysis.fields
               /\ StageAnalysis.error = arg.llm.error
        /\ arg.llm.ok =>
               /\ "error" \notin StageAnalysis.fields
               /\ StageAnalysis.parsed_score = ExtractScore(arg.llm.response)
        /\ op = "market_process" =>
               ret.market_research.sources =
                   (IF arg.http.ok THEN Min({arg.http.results, 3}) ELSE 0)

C12_Witness ==
    /\ op = "market_process"
    /\ ~arg.llm.ok
    /\ ~arg.http.ok
    /\ ret.analysis.error = "timeout"
    /\ ret.analysis.market_risks = AnalysisFailedPlaceholder

\* C13: when the document path does not exist, analyze_pitch_deck raises the
\* not-found error before any stage was invoked (and so before any LLM or
\* web call) and before any artifact was saved.
C13_NotFoundFirst ==
    (pc = "raised" /\ result.raised = "FileNotFoundError") =>
        /\ calls = <<>>
        /\ company_data = Absent
        /\ market_analysis = Absent
        /\ team_assessment = Absent
        /\ financial_analysis = Absent
        /\ risk_assessment = Absent
        /\ memo_result = Absent
        /\ store = NoArtifacts

C13_Witness ==
    /\ pc = "raised"
    /\ result.raised = "FileNotFoundError"
    /\ ~result.present

\* the generation call of every one of the six stages has failed
AllGenerationsFailed ==
    /\ company_data.error
    /\ market_analysis.analysis.error
    /\ team_assessment.assessment.error
    /\ financial_analysis.analysis.error
    /\ risk_assessment.risk_assessment.error
    /\ memo_result.memo.kind = "fallback"

\* C14: once the path exists, a run raises only from the extractor or from
\* a save: whichever generation calls fail, all six included, every stage
\* can complete without raising, and the result returned is complete.
C14_FallbacksNeverRaise ==
    /\ pc = "raised" =>
           result.raised \in {"FileNotFoundError", "ExtractionError", "OSError"}
    /\ pc \in {"market", "team", "financial", "risk", "score", "memo",
               "return"} =>
           /\ ENABLED Next
           /\ ~ENABLED (Next /\ pc' = "raised")
    /\ pc = "done" =>
           /\ result.present
           /\ result.final_score \in 0..100
           /\ result.recommendation \in Recommendations
           /\ result.memo.kind \in {"generated", "fallback"}
           /\ result.analyses.document.present
           /\ result.analyses.market.present
           /\ result.analyses.team.present
           /\ result.analyses.financial.present
           /\ result.analyses.risk.present
           /\ result.analyses.risk.risk_level \in RiskLevels
           /\ result.scores.total = result.final_score

\* a run returned although every generation call failed
C14_Witness ==
    /\ pc = "done"
    /\ result.present
    /\ AllGenerationsFailed
    /\ result.recommendation = "PASS"

\* which step has to have been invoked before which
Precedes ==
    { <<"document", "market">>, <<"document", "team">>,
      <<"document", "financial">>, <<"market", "risk">>, <<"team", "risk">>,
      <<"financial", "risk">>, <<"risk", "score">>, <<"score", "memo">>,
      <<"memo", "save_structured">>, <<"memo", "save_analysis">>,
      <<"memo", "save_memo">> }

\* the steps invoked so far respect the order, none twice
InOrder(cs) ==
    /\ \A i, j \in 1..Len(cs) : i # j => cs[i] # cs[j]
    /\ \A i \in 1..Len(cs) : \A pr \in Precedes :
           pr[2] = cs[i] => \E j \in 1..(i - 1) : cs[j] = pr[1]

\* C16: every step of a run is taken while the run has neither raised nor
\* returned; it invokes one step, no step twice, a step only after the
\* steps it depends on (document; market, team and financial; risk; score
\* aggregation; memo; the saves), and the return comes after all of them.
C16_StepOrder ==
    [][ /\ pc \notin {"raised", "done"}
        /\ Len(calls') <= Len(calls) + 1
        /\ InOrder(calls')
        /\ pc' = "done" =>
               {calls'[i] : i \in 1..Len(calls')} =
                   {pr[1] : pr \in Precedes} \cup {pr[2] : pr \in Precedes}
      ]_vars

\* the second save raised: the third one was never invoked
C16_Witness ==
    /\ pc = "raised"
    /\ result.raised = "OSError"
    /\ Len(calls) = 9
    /\ calls[9] = "save_analysis"

\* C17 as claimed: whenever a result is returned, the stored artifacts of the
\* deck hold its final_score and recommendation together with its memo and
\* its per-stage analyses.
C17_ResultStored ==
    pc = "done" =>
        /\ store.memo.present
        /\ store.memo.kind = result.memo.kind
        /\ store.memo.final_score = result.final_score
        /\ store.memo.recommendation = result.recommendation
        /\ store.structured = result.analyses.document
        /\ store.analysis.market = result.analyses.market
        /\ store.analysis.team = result.analyses.team
        /\ store.analysis.financial = result.analyses.financial
        /\ store.analysis.risk = result.analyses.risk

\* C17 amended: whenever a result is returned, the stored artifacts of the
\* deck hold its memo, its document data and its market, team, financial and
\* risk analyses; its final_score and recommendation are stored only inside
\* the memo text, which is certain to print them when it is the fallback
\* template.
C17_PartsStored ==
    pc = "done" =>
        /\ store.memo = result.memo @@ [present |-> TRUE]
        /\ store.structured = result.analyses.document
        /\ store.analysis.present
        /\ store.analysis.market = result.analyses.market
        /\ store.analysis.team = result.analyses.team
        /\ store.analysis.financial = result.analyses.financial
        /\ store.analysis.risk = result.analyses.risk
        /\ result.memo.kind = "fallback" =>
               /\ store.memo.final_score = result.final_score
               /\ store.memo.recommendation = result.recommendation

\* a run returned a generated memo and the recommendation CONSIDER
C17_Witness ==
    /\ pc = "done"
    /\ result.memo.kind = "generated"
    /\ result.recommendation = "CONSIDER"
    /\ store.memo.kind = "generated"

(***************************************************************************)
(* The memo stage: process() with its generation call and the fallback     *)
(* template.                                                               *)
(***************************************************************************)
RecommendationText(recommendation) ==
    CASE recommendation = "PASS" -> <<"P", "A", "S", "S">>
      [] recommendation = "CONSIDER" ->
             <<"C", "O", "N", "S", "I", "D", "E", "R">>
      [] recommendation = "STRONG CONSIDER" ->
             <<"S", "T", "R", "O", "N", "G", " ",
               "C", "O", "N", "S", "I", "D", "E", "R">>
      [] recommendation = "INVEST" -> <<"I", "N", "V", "E", "S", "T">>

\* the fixed text of the fallback template, piece 1
FallbackMemoPart1 ==
    <<"#", " ", "I", "n", "v", "e", "s", "t", "m", "e", "n", "t", " ", "M",
      "e", "m", "o", ":", " ">>

\* the fixed text of the fallback template, piece 2
FallbackMemoPart2 ==
    <<"\n", "\n", "#", "#", " ", "E", "x", "e", "c", "u", "t", "i", "v",
      "e", " ", "S", "u", "m", "m", "a", "r", "y", "\n", "*", "*", "I",
      "n", "v", "e", "s", "t", "m", "e", "n", "t", " ", "S", "c", "o", "r",
      "e", ":", "*", "*", " ">>

\* the fixed text of the fallback template, piece 3
FallbackMemoPart3 ==
    <<"/", "1", "0", "0", " ", "|", " ", "*", "*", "R", "e", "c", "o", "m",
      "m", "e", "n", "d", "a", "t", "i", "o", "n", ":", "*", "*", " ">>

\* the fixed text of the fallback template, piece 4
FallbackMemoPart4 ==
    <<"\n", "\n", "A", "n", "a", "l", "y", "s", "i", "s", " ", "c", "o",
      "m", "p", "l", "e", "t", "e", "d", " ", "b", "u", "t", " ", "d", "e",
      "t", "a", "i", "l", "e", "d", " ", "m", "e", "m", "o", " ", "g", "e",
      "n", "e", "r", "a", "t", "i", "o", "n", " ", "e", "n", "c", "o", "u",
      "n", "t", "e", "r", "e", "d", " ", "a", "n", " ", "e", "r", "r", "o",
      "r", ".", "\n", "P", "l", "e", "a", "s", "e", " ", "r", "e", "v",
      "i", "e", "w", " ", "i", "n", "d", "i", "v", "i", "d", "u", "a", "l",
      " ", "a", "g", "e", "n", "t", " ", "r", "e", "p", "o", "r", "t", "s",
      " ", "f", "o", "r", " ", "d", "e", "t", "a", "i", "l", "e", "d", " ",
      "i", "n", "s", "i", "g", "h", "t", "s", ".", "\n", "\n", "#", "#",
      " ", "R", "e", "c", "o", "m", "m", "e", "n", "d", "a", "t", "i", "o",
      "n", "\n", "*", "*">>

\* the fixed text of the fallback template, piece 5
FallbackMemoPart5 ==
    <<"*", "*", "\n", "\n", "B", "a", "s", "e", "d", " ", "o", "n", " ",
      "q", "u", "a", "n", "t", "i", "t", "a", "t", "i", "v", "e", " ", "s",
      "c", "o", "r", "i", "n", "g", ":", " ">>

\* the fixed text of the fallback template, piece 6
FallbackMemoPart6 ==
    <<"/", "1", "0", "0", "\n", "\n", "-", "-", "-", "\n", "*", "M", "e",
      "m", "o", " ", "g", "e", "n", "e", "r", "a", "t", "e", "d", " ", "b",
      "y", " ", "V", "e", "n", "t", "u", "r", "e", "S", "c", "o", "p", "e",
      " ", "A", "I", " ", "|", " ">>

\* the fixed text of the fallback template, piece 7
FallbackMemoPart7 ==
    <<"*", "\n">>

\* mutant: the template prints a placeholder where the score belongs
GenerateFallbackMemo_NoScore(company_name, score, recommendation, today) ==
    FallbackMemoPart1
        \o company_name
        \o FallbackMemoPart2
        \o <<"?">>
        \o FallbackMemoPart3
        \o RecommendationText(recommendation)
        \o FallbackMemoPart4
        \o RecommendationText(recommendation)
        \o FallbackMemoPart5
        \o <<"?">>
        \o FallbackMemoPart6
        \o today
        \o FallbackMemoPart7

GenerateFallbackMemo(company_name, score, recommendation, today) ==
    FallbackMemoPart1
        \o company_name
        \o FallbackMemoPart2
        \o Str(score)
        \o FallbackMemoPart3
        \o RecommendationText(recommendation)
        \o FallbackMemoPart4
        \o RecommendationText(recommendation)
        \o FallbackMemoPart5
        \o Str(score)
        \o FallbackMemoPart6
        \o today
        \o FallbackMemoPart7

\* what datetime.now().strftime('%B %d, %Y') gives on the day of the run
Today ==
    <<"J", "a", "n", "u", "a", "r", "y", " ", "0", "1", ",", " ",
      "2", "0", "2", "6">>

\* the generation call of the memo stage: a memo text (an empty one too), or
\* an exception
MemoLlmOutcomes ==
    [ok : {TRUE}, response : {<<>>, <<"#", " ", "M", "e", "m", "o">>},
     error : {""}]
        \cup [ok : {FALSE}, response : {<<>>}, error : ErrorTexts]

GenerateMemo(company_name, score, recommendation, llm) ==
    IF llm.ok THEN llm.response
    ELSE GenerateFallbackMemo(company_name, score, recommendation,
                              Today)

MemoInputs ==
    [company_name : {<<"X">>, Unknown},
     final_score : {0, 7, 49, 50, 64, 65, 79, 80, 100},
     critical_flags : {<<>>, <<AnalysisFailed>>},
     llm : MemoLlmOutcomes]

MemoProcess ==
    /\ op = "none"
    /\ op' = "memo_process"
    /\ ret' = LET recommendation ==
                      DetermineRecommendation(arg.final_score,
                                              arg.critical_flags)
              IN  [ memo |-> GenerateMemo(arg.company_name, arg.final_score,
                                          recommendation, arg.llm),
                    recommendation |-> recommendation,
                    final_score |-> arg.final_score ]
    /\ UNCHANGED <<arg, pipelineVars>>

InitMemo == arg \in MemoInputs /\ op = "none" /\ ret = <<>> /\ PipelineIdle

NextMemo == MemoProcess

SpecMemo == InitMemo /\ [][NextMemo]_vars

\* C15: when the generation call of the memo stage fails, the stage returns
\* a non-empty markdown memo (it starts with a heading) that prints the
\* returned final score as "<score>/100" and the returned recommendation in
\* bold, and the final score returned is the one the stage was given.
C15_FallbackMemo ==
    (op = "memo_process" /\ ~arg.llm.ok) =>
        /\ ret.memo # <<>>
        /\ StartsWith(ret.memo, <<"#", " ">>)
        /\ Contains(ret.memo,
                    <<" ">> \o Str(ret.final_score) \o <<"/", "1", "0", "0">>)
        /\ Contains(ret.memo,
                    <<"*", "*">> \o RecommendationText(ret.recommendation)
                        \o <<"*", "*">>)
        /\ \A r \in Recommendations \ {ret.recommendation} :
               ~Contains(ret.memo,
                         <<"*", "*">> \o RecommendationText(r) \o <<"*", "*">>)
        /\ ret.final_score = arg.final_score
        /\ ret.recommendation \in Recommendations

\* the fallback memo of a run scored 79 without critical flags
C15_Witness ==
    /\ op = "memo_process"
    /\ ~arg.llm.ok
    /\ arg.final_score = 79
    /\ ret.recommendation = "STRONG CONSIDER"
    /\ Contains(ret.memo, <<" ", "7", "9", "/", "1", "0", "0">>)

(***************************************************************************)
(* Two runs saving their artifacts at the same time.  A save opens its     *)
(* file for writing, which empties it, and then writes its payload from    *)
(* the start of the file; nothing orders the saves of one run against      *)
(* those of the other.  A payload is a sequence of blocks, arg names each  *)
(* run's deck identifier and the length of its payloads, ret holds each    *)
(* run's position in its sequence of saves.                                *)
(***************************************************************************)
MaxBlocks == 2

Runs == {1, 2}

DeckIds == {"deck_a", "deck_b"}

Kinds == <<"structured", "analysis", "memo">>

\* what run r writes as its artifact of kind k
Payload(r, k) == [i \in 1..arg.size[r] |-> <<r, k, i>>]

EmptyFile == [content |-> <<>>, writer |-> 0]

StoreInputs ==
    [deck_id : [Runs -> DeckIds], size : [Runs -> 1..MaxBlocks]]

\* open(path, "w") of the save the run has come to
OpenFile(r) ==
    /\ op = "store"
    /\ ret[r] \in {0, 2, 4}
    /\ store' = [store EXCEPT ![arg.deck_id[r]][Kinds[(ret[r] \div 2) + 1]] =
                     [content |-> <<>>, writer |-> @.writer]]
    /\ ret' = [ret EXCEPT ![r] = @ + 1]
    /\ UNCHANGED <<arg, op, pc, company_data, market_analysis, team_assessment,
                   financial_analysis, risk_assessment, final_score,
                   memo_result, result, calls>>

\* json.dump or f.write, and the close that ends the with block: the payload
\* goes over the start of whatever the file holds by then
WriteFile(r) ==
    /\ op = "store"
    /\ ret[r] \in {1, 3, 5}
    /\ LET k == Kinds[(ret[r] \div 2) + 1]
           payload == Payload(r, k)
           held == store[arg.deck_id[r]][k].content
       IN  store' = [store EXCEPT ![arg.deck_id[r]][k] =
                        [content |-> payload \o
                                     SubSeq(held, Len(payload) + 1, Len(held)),
                         writer |-> r]]
    /\ ret' = [ret EXCEPT ![r] = @ + 1]
    /\ UNCHANGED <<arg, op, pc, company_data, market_analysis, team_assessment,
                   financial_analysis, risk_assessment, final_score,
                   memo_result, result, calls>>

InitStore ==
    /\ arg \in StoreInputs
    /\ op = "store"
    /\ ret = [r \in Runs |-> 0]
    /\ store = [d \in DeckIds |->
                   [k \in {Kinds[i] : i \in 1..3} |-> EmptyFile]]
    /\ pc = "idle"
    /\ company_data = Absent
    /\ market_analysis = Absent
    /\ team_assessment = Absent
    /\ financial_analysis = Absent
    /\ risk_assessment = Absent
    /\ final_score = 0
    /\ memo_result = Absent
    /\ result = Absent
    /\ calls = <<>>

NextStore == \E r \in Runs : OpenFile(r) \/ WriteFile(r)

SpecStore == InitStore /\ [][NextStore]_vars

\* C18: when two concurrent runs have made all their saves, in whatever
\* order: with different deck identifiers each identifier's structured,
\* analysis and memo artifacts are what its run writes alone; with equal
\* identifiers each artifact kind holds the payload of the run that wrote
\* that kind last.
C18_ConcurrentSaves ==
    (op = "store" /\ \A r \in Runs : ret[r] = 6) =>
        IF arg.deck_id[1] # arg.deck_id[2]
        THEN \A r \in Runs : \A i \in 1..3 :
                 store[arg.deck_id[r]][Kinds[i]].content = Payload(r, Kinds[i])
        ELSE \A i \in 1..3 :
                 store[arg.deck_id[1]][Kinds[i]].content =
                     Payload(store[arg.deck_id[1]][Kinds[i]].writer, Kinds[i])

(***************************************************************************)
(* The document stage's enhancement: _enhance_with_llm and the parse of    *)
(* its response.  A field value carries its Python type, the text of a     *)
(* string as characters.                                                   *)
(***************************************************************************)
MaxProfileLines == 3

KwCompanyName ==
    <<"c", "o", "m", "p", "a", "n", "y", "_", "n", "a", "m", "e">>

KwTagline ==
    <<"t", "a", "g", "l", "i", "n", "e">>

KwProblem ==
    <<"p", "r", "o", "b", "l", "e", "m">>

KwSolution ==
    <<"s", "o", "l", "u", "t", "i", "o", "n">>

KwMarket ==
    <<"m", "a", "r", "k", "e", "t">>

KwBusiness ==
    <<"b", "u", "s", "i", "n", "e", "s", "s">>

KwModel ==
    <<"m", "o", "d", "e", "l">>

KwTraction ==
    <<"t", "r", "a", "c", "t", "i", "o", "n">>

KwMetrics ==
    <<"m", "e", "t", "r", "i", "c", "s">>

KwTeam ==
    <<"t", "e", "a", "m">>

KwFunding ==
    <<"f", "u", "n", "d", "i", "n", "g">>

KwAsk ==
    <<"a", "s", "k">>

KwCompetitor ==
    <<"c", "o", "m", "p", "e", "t", "i", "t", "o", "r">>

ProfileFields ==
    <<"company_name", "tagline", "problem", "solution", "market_size",
      "business_model", "traction", "team", "funding_ask", "competitors">>

StrValue(text) == [type |-> "str", text |-> text]

EmptyDict == [type |-> "dict", text |-> <<>>]

EmptyList == [type |-> "list", text |-> <<>>]

\* s.lower()
LowerText(s) == [i \in 1..Len(s) |-> Lower(s[i])]

\* s.replace(' ', '_')
Underscored(s) == [i \in 1..Len(s) |-> IF s[i] = " " THEN "_" ELSE s[i]]

\* where line.split(':', 1) splits, 0 without ':'
FirstColon(line) ==
    IF \E i \in 1..Len(line) : line[i] = ":"
    THEN Min({i \in 1..Len(line) : line[i] = ":"})
    ELSE 0

\* the key of a line that holds ':'
LineKey(line) ==
    Underscored(LowerText(Strip(SubSeq(line, 1, FirstColon(line) - 1))))

\* the field the chain of tests maps a key to, "" when none matches
MapKey(key) ==
    IF Contains(key, KwCompanyName) \/ StartsWith(key, <<"1">>)
    THEN "company_name"
    ELSE IF Contains(key, KwTagline) \/ StartsWith(key, <<"2">>)
    THEN "tagline"
    ELSE IF Contains(key, KwProblem) \/ StartsWith(key, <<"3">>)
    THEN "problem"
    ELSE IF Contains(key, KwSolution) \/ StartsWith(key, <<"4">>)
    THEN "solution"
    ELSE IF Contains(key, KwMarket) \/ StartsWith(key, <<"5">>)
    THEN "market_size"
    ELSE IF \/ Contains(key, KwBusiness)
            \/ Contains(key, KwModel)
            \/ StartsWith(key, <<"6">>)
    THEN "business_model"
    ELSE IF \/ Contains(key, KwTraction)
            \/ Contains(key, KwMetrics)
            \/ StartsWith(key, <<"7">>)
    THEN "traction"
    ELSE IF Contains(key, KwTeam) \/ StartsWith(key, <<"8">>)
    THEN "team"
    ELSE IF \/ Contains(key, KwFunding)
            \/ Contains(key, KwAsk)
            \/ StartsWith(key, <<"9">>)
    THEN "funding_ask"
    ELSE IF Contains(key, KwCompetitor) \/ StartsWith(key, <<"1", "0">>)
    THEN "competitors"
    ELSE ""

EmptyData == [f \in {} |-> <<>>]

\* the loop over the lines: data after the lines left
RECURSIVE ParseLines(_, _)
ParseLines(lines, data) ==
    IF lines = <<>> THEN data
    ELSE LET line == Head(lines)
             field == MapKey(LineKey(line))
             value == Strip(SubSeq(line, FirstColon(line) + 1, Len(line)))
         IN  ParseLines(Tail(lines),
                        IF FirstColon(line) = 0 \/ field = "" THEN data
                        ELSE (field :> value) @@ data)

\* data.get(key, default)
DataGet(data, key, default) ==
    IF key \in DOMAIN data THEN StrValue(data[key]) ELSE default

\* data.get(key) or other
DataGetOr(data, key, other) ==
    IF key \in DOMAIN data /\ data[key] # <<>> THEN StrValue(data[key])
    ELSE other

\* raw_data.get(key, default)
RawGet(raw_data, key, default) ==
    IF key \in DOMAIN raw_data THEN raw_data[key] ELSE default

ParseLlmResponse(response, raw_data) ==
    LET data == ParseLines(SplitLines(Strip(response)), EmptyData)
        sentinel == StrValue(NotSpecified)
    IN  [ company_name |->
              DataGetOr(data, "company_name",
                        RawGet(raw_data, "company_name", StrValue(Unknown))),
          tagline |-> DataGet(data, "tagline", sentinel),
          problem |-> DataGet(data, "problem", sentinel),
          solution |-> DataGet(data, "solution", sentinel),
          market_size |->
              DataGetOr(data, "market_size",
                        RawGet(raw_data, "market_size", sentinel)),
          business_model |-> DataGet(data, "business_model", sentinel),
          traction |->
              DataGetOr(data, "traction",
                        RawGet(raw_data, "traction", sentinel)),
          team |-> DataGet(data, "team", sentinel),
          funding_ask |->
              DataGetOr(data, "funding_ask",
                        RawGet(raw_data, "funding_ask", sentinel)),
          competitors |->
              DataGetOr(data, "competitors",
                        RawGet(raw_data, "competitors", sentinel)) ]

EnhanceWithLlm(llm, raw_data) ==
    IF llm.ok THEN ParseLlmResponse(llm.response, raw_data)
    ELSE LET sentinel == StrValue(NotSpecified)
         IN  [ company_name |->
                   RawGet(raw_data, "company_name", StrValue(Unknown)),
               tagline |-> RawGet(raw_data, "tagline", sentinel),
               problem |-> RawGet(raw_data, "problem", sentinel),
               solution |-> RawGet(raw_data, "solution", sentinel),
               market_size |-> RawGet(raw_data, "market_size", EmptyDict),
               business_model |->
                   RawGet(raw_data, "business_model", sentinel),
               traction |-> RawGet(raw_data, "traction", EmptyDict),
               team |-> RawGet(raw_data, "team", sentinel),
               funding_ask |-> RawGet(raw_data, "funding_ask", sentinel),
               competitors |-> RawGet(raw_data, "competitors", EmptyList),
               error |-> llm.error ]

\* the lines an enhancement response is made of
ProfileLines ==
    { <<"1", ".", " ", "C", "o", "m", "p", "a", "n", "y", " ", "N", "a",
        "m", "e", ":", " ", "F">>,
      <<"T", "a", "g", "l", "i", "n", "e", ":", " ", "t">>,
      <<"T", "a", "g", "l", "i", "n", "e", ":">>,
      <<"5", ".", " ", "M", "a", "r", "k", "e", "t", " ", "S", "i", "z",
        "e", ":">>,
      <<"1", "0", ".", " ", "C", "o", "m", "p", "e", "t", "i", "t", "o",
        "r", "s", ":", " ", "A">>,
      <<"x">> }

\* lines 84-93: the ten labels the prompt asks the model to fill in
PromptLabels ==
    <<
      <<"1", ".", " ", "C", "o", "m", "p", "a", "n", "y", " ", "N", "a",
        "m", "e">>,
      <<"2", ".", " ", "T", "a", "g", "l", "i", "n", "e", " ", "(", "o",
        "n", "e", " ", "s", "e", "n", "t", "e", "n", "c", "e", ")">>,
      <<"3", ".", " ", "P", "r", "o", "b", "l", "e", "m", " ", "S", "t",
        "a", "t", "e", "m", "e", "n", "t", " ", "(", "2", "-", "3", " ",
        "s", "e", "n", "t", "e", "n", "c", "e", "s", ")">>,
      <<"4", ".", " ", "S", "o", "l", "u", "t", "i", "o", "n", " ", "(",
        "2", "-", "3", " ", "s", "e", "n", "t", "e", "n", "c", "e", "s",
        ")">>,
      <<"5", ".", " ", "M", "a", "r", "k", "e", "t", " ", "S", "i", "z",
        "e", " ", "(", "T", "A", "M", "/", "S", "A", "M", "/", "S", "O",
        "M", " ", "i", "f", " ", "a", "v", "a", "i", "l", "a", "b", "l",
        "e", ")">>,
      <<"6", ".", " ", "B", "u", "s", "i", "n", "e", "s", "s", " ", "M",
        "o", "d", "e", "l">>,
      <<"7", ".", " ", "K", "e", "y", " ", "T", "r", "a", "c", "t", "i",
        "o", "n", " ", "M", "e", "t", "r", "i", "c", "s">>,
      <<"8", ".", " ", "T", "e", "a", "m", " ", "H", "i", "g", "h", "l",
        "i", "g", "h", "t", "s">>,
      <<"9", ".", " ", "F", "u", "n", "d", "i", "n", "g", " ", "A", "s",
        "k">>,
      <<"1", "0", ".", " ", "C", "o", "m", "p", "e", "t", "i", "t", "o",
        "r", "s">>
    >>

\* the values a ten-line response gives to the ten labels
TenValues ==
    { [i \in 1..10 |-> <<"x">>],
      [i \in 1..10 |->
           <<(<<"a", "b", "c", "d", "e", "f", "g", "h", "i", "j">>)[i]>>],
      [i \in 1..10 |-> IF i = 10 THEN <<"A", ",", " ", "G">>
                       ELSE <<"F", ":", "1">>] }

\* the response made of the ten numbered lines "label: value"
TenLineResponse(values) ==
    JoinLines([i \in 1..10 |-> PromptLabels[i] \o <<":", " ">> \o values[i]])

ProfileLlmOutcomes ==
    [ok : {TRUE},
     response : TextsOfLines(ProfileLines, MaxProfileLines)
                    \cup {TenLineResponse(values) : values \in TenValues},
     error : {""}]
        \cup [ok : {FALSE}, response : {<<>>}, error : ErrorTexts]

\* the characters one element of a document text stands for
BlockSize == 4000

MaxTextBlocks == 3

\* what extract_text returns: a text of up to MaxTextBlocks blocks
DocumentTexts == SeqsUpTo({"p", "q"}, MaxTextBlocks)

\* what extract_structured_data returns
RawExtractions ==
    [ raw_text : {StrValue(t) : t \in DocumentTexts}, tables : {EmptyList},
      metadata : {EmptyDict}, source_file : {StrValue(<<"d">>)} ]

\* the fixed text of the prompt before and after the embedded document text
PromptHead ==
    "Analyze the following pitch deck content and extract key information:"

PromptTail == "Provide a structured analysis with the following: ..."

TruncationMarker == "[Content truncated...]"

\* lines 72-96: the prompt _enhance_with_llm passes to generate
EnhancePrompt(raw_data) ==
    LET full_text == RawGet(raw_data, "full_text", StrValue(<<>>)).text
        embedded ==
            IF Len(full_text) * BlockSize > 8000
            THEN SubSeq(full_text, 1, 8000 \div BlockSize)
                     \o <<TruncationMarker>>
            ELSE full_text
    IN  <<PromptHead>> \o embedded \o <<PromptTail>>

EnhanceInputs == [llm : ProfileLlmOutcomes, raw_data : RawExtractions]

EnhanceWithLlmCall ==
    /\ op = "none"
    /\ op' = "_enhance_with_llm"
    /\ ret' = EnhanceWithLlm(arg.llm, arg.raw_data)
    /\ UNCHANGED <<arg, pipelineVars>>

InitEnhance ==
    arg \in EnhanceInputs /\ op = "none" /\ ret = <<>> /\ PipelineIdle

\* the call of generate at lines 99-104, seen from the client: its prompt
EnhancePromptCall ==
    /\ op = "none"
    /\ op' = "generate_prompt"
    /\ ret' = EnhancePrompt(arg.raw_data)
    /\ UNCHANGED <<arg, pipelineVars>>

NextEnhance == EnhanceWithLlmCall \/ EnhancePromptCall

SpecEnhance == InitEnhance /\ [][NextEnhance]_vars

(***************************************************************************)
(* HuggingFaceLLMClient.generate under its retry decorator                 *)
(* (stop_after_attempt(3), reraise=True).  arg is what the model service   *)
(* does on each successive invocation; ret is the state of the call.       *)
(***************************************************************************)
\* stop_after_attempt(3)
StopAfterAttempt == 3

\* client.chat_completion on one invocation: a completion with a text, an
\* exception, or a completion without choices (choices[0] raises IndexError)
ServiceOutcomes ==
    [ok : {TRUE}, text : {"a", "b"}, error : {""}]
        \cup [ok : {FALSE}, text : {""},
              error : ErrorTexts \cup {"list index out of range"}]

GenerateInputs == [1..(StopAfterAttempt + 1) -> ServiceOutcomes]

\* generate() is called: no attempt has been made yet
Generate ==
    /\ op = "none"
    /\ op' = "generate"
    /\ ret' = [status |-> "running", attempt_number |-> 0, text |-> "",
               error |-> ""]
    /\ UNCHANGED <<arg, pipelineVars>>

\* mutant: the decorator has no stop condition
GenerateAttempt_NoStop ==
    /\ op = "generate"
    /\ ret.status = "running"
    /\ ret.attempt_number < Len(arg)
    /\ LET n == ret.attempt_number + 1
           outcome == arg[n]
       IN  ret' = IF outcome.ok
                  THEN [status |-> "returned", attempt_number |-> n,
                        text |-> outcome.text, error |-> ""]
                  ELSE [status |-> "running", attempt_number |-> n,
                        text |-> "", error |-> outcome.error]
    /\ UNCHANGED <<arg, op, pipelineVars>>

\* one attempt: the body of generate (lines 58-79) invokes the service once;
\* its text is returned, or its exception is re-raised to the decorator,
\* which waits and retries until the third attempt and then re-raises it
GenerateAttempt ==
    /\ op = "generate"
    /\ ret.status = "running"
    /\ LET n == ret.attempt_number + 1
           outcome == arg[n]
       IN  ret' = IF outcome.ok
                  THEN [status |-> "returned", attempt_number |-> n,
                        text |-> outcome.text, error |-> ""]
                  ELSE [status |-> IF n >= StopAfterAttempt THEN "raised"
                                   ELSE "running",
                        attempt_number |-> n, text |-> "",
                        error |-> outcome.error]
    /\ UNCHANGED <<arg, op, pipelineVars>>

InitGenerate ==
    arg \in GenerateInputs /\ op = "none" /\ ret = <<>> /\ PipelineIdle

NextGenerate == Generate \/ GenerateAttempt

SpecGenerate == InitGenerate /\ [][NextGenerate]_vars

\* the number a label starts with, 0 without one
(***************************************************************************)
(* DocumentIngestionAgent.process and the PDFExtractor it opens and closes.*)
(* arg is what the document and the collaborators do; ret is the state of  *)
(* the call: where it stands, the state of the fitz document, how often    *)
(* close() was called and how often it closed the document.                *)
(***************************************************************************)
MaxPages == 2

\* fitz.open succeeds or raises; the opened document has page_count pages;
\* page.get_text / OCR, the block scan and the metadata read work or raise;
\* the generation call of the enhancement works or fails
DocumentInputs ==
    [opens : BOOLEAN, page_count : 0..MaxPages, text_ok : BOOLEAN,
     tables_ok : BOOLEAN, metadata_ok : BOOLEAN, llm_ok : BOOLEAN]

\* line 37: process() is entered
DocumentProcess ==
    /\ op = "none"
    /\ op' = "document_process"
    /\ ret' = [pc |-> "init", doc |-> "none", close_calls |-> 0,
               doc_closes |-> 0, pending |-> "", tables |-> "none",
               metadata |-> "none", error |-> FALSE]
    /\ UNCHANGED <<arg, pipelineVars>>

\* line 40 and PDFExtractor.__init__: outside the try block
PDFExtractorInit ==
    /\ op = "document_process"
    /\ ret.pc = "init"
    /\ ret' = IF arg.opens
              THEN [ret EXCEPT !.pc = "extract_structured_data",
                               !.doc = "open"]
              ELSE [ret EXCEPT !.pc = "raised", !.pending = "FileDataError"]
    /\ UNCHANGED <<arg, op, pipelineVars>>

\* line 43: extract_text raises or returns; extract_tables and
\* extract_metadata catch their own exceptions
ExtractStructuredData ==
    /\ op = "document_process"
    /\ ret.pc = "extract_structured_data"
    /\ ret' = IF arg.text_ok
              THEN [ret EXCEPT !.pc = "extract_tables"]
              ELSE [ret EXCEPT !.pc = "finally",
                               !.pending = "ExtractionError"]
    /\ UNCHANGED <<arg, op, pipelineVars>>

\* line 44: the tables found, or those found before the scan failed
ExtractTables ==
    /\ op = "document_process"
    /\ ret.pc = "extract_tables"
    /\ ret' = [ret EXCEPT !.pc = "extract_metadata",
                          !.tables = IF arg.tables_ok THEN "all"
                                     ELSE "partial"]
    /\ UNCHANGED <<arg, op, pipelineVars>>

\* line 45: the metadata, or {} when reading it failed
ExtractMetadata ==
    /\ op = "document_process"
    /\ ret.pc = "extract_metadata"
    /\ ret' = [ret EXCEPT !.pc = "enhance",
                          !.metadata = IF arg.metadata_ok THEN "read"
                                       ELSE "empty"]
    /\ UNCHANGED <<arg, op, pipelineVars>>

\* lines 47-58: _enhance_with_llm catches a failed generation and returns
\* the fallback profile with its error field; the result is built
EnhanceStep ==
    /\ op = "document_process"
    /\ ret.pc = "enhance"
    /\ ret' = [ret EXCEPT !.pc = "finally", !.error = ~arg.llm_ok]
    /\ UNCHANGED <<arg, op, pipelineVars>>

\* mutant: close() is called on the successful path only
Close_OnSuccess ==
    /\ op = "document_process"
    /\ ret.pc = "finally"
    /\ ret' = IF ret.pending = ""
              THEN [ret EXCEPT !.pc = "returned",
                               !.close_calls = @ + 1,
                               !.doc_closes = IF arg.page_count > 0
                                              THEN @ + 1 ELSE @,
                               !.doc = IF arg.page_count > 0
                                       THEN "closed" ELSE @]
              ELSE [ret EXCEPT !.pc = "raised"]
    /\ UNCHANGED <<arg, op, pipelineVars>>

\* lines 60-61 and PDFExtractor.close: `if self.doc` is the truth value of the
\* fitz document, which is its length, the page count; then process()
\* returns the result or re-raises the pending exception
Close ==
    /\ op = "document_process"
    /\ ret.pc = "finally"
    /\ ret' = [ret EXCEPT !.pc = IF ret.pending = "" THEN "returned"
                                 ELSE "raised",
                          !.close_calls = @ + 1,
                          !.doc_closes = IF arg.page_count > 0
                                         THEN @ + 1 ELSE @,
                          !.doc = IF arg.page_count > 0 THEN "closed" ELSE @]
    /\ UNCHANGED <<arg, op, pipelineVars>>

InitDocument ==
    arg \in DocumentInputs /\ op = "none" /\ ret = <<>> /\ PipelineIdle

NextDocument ==
    \/ DocumentProcess
    \/ PDFExtractorInit
    \/ ExtractStructuredData
    \/ ExtractTables
    \/ ExtractMetadata
    \/ EnhanceStep
    \/ Close

SpecDocument == InitDocument /\ [][NextDocument]_vars

(***************************************************************************)
(* PitchDeckRegistry: the registry file holds a JSON list of entries.  An  *)
(* entry's analyzed field is absent, false or true.  In SpecRegistry one   *)
(* process calls register and mark_analyzed one after the other; ret holds *)
(* the file's list, the list before the last call and the calls made.      *)
(***************************************************************************)
MaxRegistryCalls == 4

\* the entries a caller registers
RegistryEntries ==
    [id : DeckIds, company : {"x", "y"}, analyzed : {"absent", "false"}]

\* register: lines 23-25
Register(data, entry) == Append(data, entry)

\* mutant: only the first entry with the id is marked
MarkAnalyzed_First(data, deck_id) ==
    [i \in 1..Len(data) |->
        IF data[i].id = deck_id /\ \A j \in 1..(i - 1) : data[j].id # deck_id
        THEN [data[i] EXCEPT !.analyzed = "true"]
        ELSE data[i]]

\* mark_analyzed: the loop of lines 35-37 over the loaded list
MarkAnalyzed(data, deck_id) ==
    [i \in 1..Len(data) |->
        IF data[i].id = deck_id THEN [data[i] EXCEPT !.analyzed = "true"]
        ELSE data[i]]

\* list_all
ListAll(data) == data

\* get_unanalyzed: the entries whose analyzed field is missing or falsy
GetUnanalyzed(data) ==
    SelectSeq(data, LAMBDA d : d.analyzed # "true")

RegisterCall ==
    /\ op = "registry"
    /\ Len(ret.log) < MaxRegistryCalls
    /\ \E entry \in RegistryEntries :
          ret' = [data |-> Register(ret.data, entry), before |-> ret.data,
                  log |-> Append(ret.log, [call |-> "register",
                                           id |-> entry.id])]
    /\ UNCHANGED <<arg, op, pipelineVars>>

MarkAnalyzedCall ==
    /\ op = "registry"
    /\ Len(ret.log) < MaxRegistryCalls
    /\ \E deck_id \in DeckIds :
          ret' = [data |-> MarkAnalyzed(ret.data, deck_id),
                  before |-> ret.data,
                  log |-> Append(ret.log, [call |-> "mark_analyzed",
                                           id |-> deck_id])]
    /\ UNCHANGED <<arg, op, pipelineVars>>

\* __init__ has written the empty list
InitRegistry ==
    /\ arg = <<>>
    /\ op = "registry"
    /\ ret = [data |-> <<>>, before |-> <<>>, log |-> <<>>]
    /\ PipelineIdle

NextRegistry == RegisterCall \/ MarkAnalyzedCall

SpecRegistry == InitRegistry /\ [][NextRegistry]_vars

(***************************************************************************)
(* Two processes using the same registry file.  A call is a _load, which   *)
(* reads the file's list into the process, followed later by a _save,      *)
(* which writes the process's changed list back; nothing locks the file    *)
(* in between.  ret holds the file, each process's call in progress and    *)
(* what the completed calls were given.                                    *)
(***************************************************************************)
MaxRaceCalls == 2

RaceEntries == [id : DeckIds, company : {"x", "y"}, analyzed : {"absent"}]

NoCall == [call |-> "none", id |-> "", data |-> <<>>, done |-> 0]

\* an entry as the callers know it: its id and company
Key(entry) == [id |-> entry.id, company |-> entry.company]

\* lines 23-24 and 34-37: a call begins by loading the file's list and
\* changing the loaded list
Load(r) ==
    /\ op = "registry_race"
    /\ ret.procs[r].call = "none"
    /\ ret.procs[r].done < MaxRaceCalls
    /\ \/ \E entry \in RaceEntries :
             ret' = [ret EXCEPT
                        !.procs[r] = [call |-> "register", id |-> entry.id,
                                      data |-> Register(ret.file, entry),
                                      done |-> @.done],
                        !.passed = @ \cup {Key(entry)}]
       \/ \E deck_id \in DeckIds :
             ret' = [ret EXCEPT
                        !.procs[r] = [call |-> "mark_analyzed",
                                      id |-> deck_id,
                                      data |-> MarkAnalyzed(ret.file, deck_id),
                                      done |-> @.done],
                        !.marked = @ \cup {k \in ret.registered :
                                              k.id = deck_id}]
    /\ UNCHANGED <<arg, op, pipelineVars>>

\* lines 25 and 38: the call ends by writing its list over the file
Save(r) ==
    /\ op = "registry_race"
    /\ ret.procs[r].call # "none"
    /\ ret' = [ret EXCEPT
                  !.file = ret.procs[r].data,
                  !.procs[r] = [NoCall EXCEPT !.done = ret.procs[r].done + 1],
                  !.registered =
                      IF ret.procs[r].call = "register"
                      THEN @ \cup {Key(ret.procs[r].data[
                                           Len(ret.procs[r].data)])}
                      ELSE @]
    /\ UNCHANGED <<arg, op, pipelineVars>>

InitRace ==
    /\ arg = <<>>
    /\ op = "registry_race"
    /\ ret = [file |-> <<>>, procs |-> [r \in Runs |-> NoCall],
              passed |-> {}, registered |-> {}, marked |-> {}]
    /\ PipelineIdle

NextRace == \E r \in Runs : Load(r) \/ Save(r)

SpecRace == InitRace /\ [][NextRace]_vars

(***************************************************************************)
(* scripts/batch_analyze.py.  arg is the registry's list when the script   *)
(* starts; an entry's file is the number of its deck file.  ret holds the  *)
(* registry's list, the list get_unanalyzed returned, the position of the  *)
(* loop in it, and the files whose analysis was started and has returned.  *)
(***************************************************************************)
MaxDecks == 3

BatchIds == DeckIds \cup {"deck_c"}

\* the registries the script may find: each entry has its own deck file
BatchRegistries ==
    UNION {{data \in [1..n -> [id : BatchIds, file : 1..n,
                               analyzed : {"absent", "true"}]] :
               \A i \in 1..n : data[i].file = i} : n \in 0..MaxDecks}

\* lines 4-7: the registry is read once, before the loop
BatchStart ==
    /\ op = "none"
    /\ op' = "batch"
    /\ ret' = [data |-> arg, decks |-> GetUnanalyzed(arg), i |-> 1,
               status |-> IF GetUnanalyzed(arg) = <<>> THEN "complete"
                          ELSE "analyzing",
               started |-> <<>>, returned |-> {}]
    /\ UNCHANGED <<arg, pipelineVars>>

\* lines 9-13: analyze_pitch_deck on the deck's file returns, or raises and
\* ends the script
AnalyzePitchDeck ==
    /\ op = "batch"
    /\ ret.status = "analyzing"
    /\ LET deck == ret.decks[ret.i]
       IN  \/ ret' = [ret EXCEPT !.status = "marking",
                                 !.started = Append(@, deck.file),
                                 !.returned = @ \cup {deck.file}]
           \/ ret' = [ret EXCEPT !.status = "raised",
                                 !.started = Append(@, deck.file)]
    /\ UNCHANGED <<arg, op, pipelineVars>>

\* line 15 and the loop's next turn
MarkStep ==
    /\ op = "batch"
    /\ ret.status = "marking"
    /\ ret' = [ret EXCEPT
                  !.data = MarkAnalyzed(ret.data, ret.decks[ret.i].id),
                  !.i = @ + 1,
                  !.status = IF ret.i = Len(ret.decks) THEN "complete"
                             ELSE "analyzing"]
    /\ UNCHANGED <<arg, op, pipelineVars>>

InitBatch ==
    arg \in BatchRegistries /\ op = "none" /\ ret = <<>> /\ PipelineIdle

NextBatch == BatchStart \/ AnalyzePitchDeck \/ MarkStep

SpecBatch == InitBatch /\ [][NextBatch]_vars

LabelNumber(key) ==
    LET n == Cardinality({i \in 1..Len(key) :
                             \A d \in 1..i : IsDigit(key[d])})
    IN  IF n = 0 THEN 0 ELSE ToInt(SubSeq(key, 1, n))

\* the words that name a field in a label
FieldWords(f) ==
    CASE f = "company_name" -> {KwCompanyName}
      [] f = "tagline" -> {KwTagline}
      [] f = "problem" -> {KwProblem}
      [] f = "solution" -> {KwSolution}
      [] f = "market_size" -> {KwMarket}
      [] f = "business_model" -> {KwBusiness, KwModel}
      [] f = "traction" -> {KwTraction, KwMetrics}
      [] f = "team" -> {KwTeam}
      [] f = "funding_ask" -> {KwFunding, KwAsk}
      [] f = "competitors" -> {KwCompetitor}

\* the response has a line "label: value" whose label carries the field's
\* number in the prompt's list or, being unnumbered, one of its words
Supplied(response, f) ==
    \E k \in 1..Len(SplitLines(response)) :
        LET line == SplitLines(response)[k]
        IN  /\ FirstColon(line) > 0
            /\ \/ /\ LabelNumber(LineKey(line)) # 0
                  /\ ProfileFields[LabelNumber(LineKey(line))] = f
               \/ /\ LabelNumber(LineKey(line)) = 0
                  /\ \E w \in FieldWords(f) : Contains(LineKey(line), w)

\* C19: after the enhancement every profile field that the LLM response did
\* not supply holds "Not specified" or the value the raw extraction has for
\* it; when the LLM call failed the profile has an error field and every
\* field holds the raw extraction's value or "Not specified".
C19_Defaults ==
    op = "_enhance_with_llm" =>
        LET allowed(f) ==
                {StrValue(NotSpecified)}
                    \cup (IF f \in DOMAIN arg.raw_data
                          THEN {arg.raw_data[f]} ELSE {})
        IN  IF arg.llm.ok
            THEN \A i \in 1..10 :
                     ~Supplied(arg.llm.response, ProfileFields[i]) =>
                         ret[ProfileFields[i]] \in allowed(ProfileFields[i])
            ELSE /\ "error" \in DOMAIN ret
                 /\ \A i \in 1..10 :
                        ret[ProfileFields[i]] \in allowed(ProfileFields[i])

\* C20 as claimed: the team stage's score is the parsed score lowered by 5
\* when no team member was identified, raised by 5 when three or more were,
\* unchanged otherwise, and kept within 0..25.
C20_TeamAdjustFive ==
    team_assessment.present =>
        team_assessment.score =
            Clamp(team_assessment.assessment.score
                      + (IF company_data.team_members = 0 THEN -5
                         ELSE IF company_data.team_members >= 3 THEN 5
                         ELSE 0),
                  0, 25)

\* C20 amended: the team stage's score is the parsed score lowered by 5 when
\* no team member was identified, raised by 2 when three or more were,
\* unchanged otherwise, and kept within 0..25.
C20_TeamAdjust ==
    team_assessment.present =>
        /\ team_assessment.score =
               Clamp(team_assessment.assessment.score
                         + (IF company_data.team_members = 0 THEN -5
                            ELSE IF company_data.team_members >= 3 THEN 2
                            ELSE 0),
                     0, 25)
        /\ team_assessment.score \in 0..25

\* three members and a parsed score of 9 give 11
C20_Witness ==
    /\ team_assessment.present
    /\ company_data.team_members = 3
    /\ team_assessment.assessment.score = 9
    /\ team_assessment.score = 11

\* C21: the financial stage's final score is min(25, parsed score + 3 if a
\* revenue metric was detected + 2 if a growth-rate metric was detected);
\* with neither metric it is the parsed score, and it is always in 0..25.
C21_FinancialScore ==
    financial_analysis.present =>
        LET parsed == financial_analysis.analysis.score
            bonus == (IF company_data.revenue THEN 3 ELSE 0)
                         + (IF company_data.growth_rate THEN 2 ELSE 0)
        IN  /\ financial_analysis.score = Min({25, parsed + bonus})
            /\ (~company_data.revenue /\ ~company_data.growth_rate) =>
                   financial_analysis.score = parsed
            /\ financial_analysis.score \in 0..25

C21_Witness ==
    /\ financial_analysis.present
    /\ company_data.revenue
    /\ company_data.growth_rate
    /\ financial_analysis.analysis.score = 22
    /\ financial_analysis.score = 25

\* the attempts of the call that failed so far
FailedAttempts == {i \in 1..ret.attempt_number : ~arg[i].ok}

\* C22: one call of generate invokes the model service at most 3 times; it
\* returns the text of the first attempt that succeeds and makes no further
\* attempt, and after 3 failed attempts it raises the last attempt's error;
\* it never goes on retrying.
C22_BoundedRetries ==
    op = "generate" =>
        /\ ret.attempt_number <= 3
        /\ ret.status = "running" =>
               /\ FailedAttempts = 1..ret.attempt_number
               /\ ret.attempt_number < 3
               /\ ENABLED GenerateAttempt
        /\ ret.status = "returned" =>
               /\ arg[ret.attempt_number].ok
               /\ FailedAttempts = 1..(ret.attempt_number - 1)
               /\ ret.text = arg[ret.attempt_number].text
               /\ ~ENABLED NextGenerate
        /\ ret.status = "raised" =>
               /\ ret.attempt_number = 3
               /\ FailedAttempts = 1..3
               /\ ret.error = arg[3].error
               /\ ~ENABLED GenerateAttempt

C22_Witness ==
    /\ op = "generate"
    /\ ret.status = "raised"
    /\ arg[2].error = "timeout"
    /\ arg[3].error = "rate limit exceeded"
    /\ ret.error = "rate limit exceeded"
    /\ arg[4].ok

\* the document text a prompt embeds between its fixed head and tail
EmbeddedText(prompt) == SubSeq(prompt, 2, Len(prompt) - 1)

\* a text cut to its first 8000 characters and marked when it is longer
CutTo8000(text) ==
    IF Len(text) * BlockSize <= 8000 THEN text
    ELSE SubSeq(text, 1, 8000 \div BlockSize) \o <<TruncationMarker>>

\* C23: the text the document extractor returned for the document is the
\* text the document stage embeds in its LLM extraction prompt, cut to its
\* first 8000 characters followed by a truncation marker when it is longer.
C23_PromptEmbedsText ==
    op = "generate_prompt" =>
        EmbeddedText(ret) = CutTo8000(arg.raw_data.raw_text.text)

\* C24: when the LLM generation call fails inside the risk stage, the stage
\* returns the single critical flag "Analysis failed - unable to assess
\* risks" and the risk level CRITICAL, so the run's execution score is 5 and
\* its recommendation is PASS whatever the market, team and financial scores.
C24_RiskFailureVetoes ==
    (risk_assessment.present /\ risk_assessment.risk_assessment.error) =>
        /\ risk_assessment.critical_flags = <<AnalysisFailed>>
        /\ risk_assessment.risk_level = "CRITICAL"
        /\ pc \in {"memo", "save_structured", "save_analysis", "save_memo",
                   "return", "done"} =>
               final_score = market_analysis.score + team_assessment.score
                                 + financial_analysis.score + 5
        /\ memo_result.present => memo_result.recommendation = "PASS"
        /\ result.present => result.recommendation = "PASS"

\* a returned run whose three stage scores are the highest possible
C24_Witness ==
    /\ result.present
    /\ result.analyses.risk.risk_assessment.error
    /\ result.scores.market = 25
    /\ result.scores.team = 25
    /\ result.scores.financial = 25
    /\ result.final_score = 80
    /\ result.recommendation = "PASS"

\* C25: in every result returned, scores.total equals final_score, and
\* final_score equals scores.market + scores.team + scores.financial +
\* execution(risk_level) exactly: the sum lies in 5..100, so the clamp of
\* the score aggregator never changes it.
C25_TotalIsSum ==
    result.present =>
        LET sum == result.scores.market + result.scores.team
                       + result.scores.financial
                       + ExecutionScore(result.analyses.risk.risk_level)
        IN  /\ result.scores.total = result.final_score
            /\ result.final_score = sum
            /\ sum \in 5..100

C25_Witness ==
    /\ result.present
    /\ result.analyses.risk.risk_level = "LOW"
    /\ result.scores.market + result.scores.team + result.scores.financial
           = 75
    /\ result.final_score = 100

\* C26: when the LLM extraction response consists of the ten numbered lines
\* the prompt asks for ("1. Company Name: v1" through "10. Competitors:
\* v10", all values non-empty), the enhanced data has company_name = v1,
\* tagline = v2, problem = v3, solution = v4, market_size = v5,
\* business_model = v6, traction = v7, team = v8, funding_ask = v9 and
\* competitors = v10.
C26_TenLines ==
    (op = "_enhance_with_llm" /\ arg.llm.ok) =>
        \A values \in TenValues :
            arg.llm.response = TenLineResponse(values) =>
                \A i \in 1..10 : ret[ProfileFields[i]] = StrValue(values[i])

\* the same with the fields of lines 1 and 10 left out
C26_LinesTwoToNine ==
    (op = "_enhance_with_llm" /\ arg.llm.ok) =>
        \A values \in TenValues :
            arg.llm.response = TenLineResponse(values) =>
                \A i \in 2..9 : ret[ProfileFields[i]] = StrValue(values[i])

\* process() has returned or raised after the extractor had been opened
ProcessEnded ==
    /\ op = "document_process"
    /\ ret.pc \in {"returned", "raised"}
    /\ arg.opens

\* C27: in the document stage, once the PDF extractor has been opened it is
\* closed exactly once before process() returns or raises, on every path:
\* successful extraction, a failure of text, table or metadata extraction,
\* and a failure during LLM enhancement.
C27_ClosedOnce ==
    ProcessEnded => (ret.doc = "closed" /\ ret.doc_closes = 1)

\* close() is called exactly once on every such path, and it closes the
\* document exactly once when the document has a page
C27_CloseCalledOnce ==
    /\ ProcessEnded =>
           /\ ret.close_calls = 1
           /\ arg.page_count > 0 => (ret.doc = "closed" /\ ret.doc_closes = 1)
    /\ (op = "document_process" /\ ret.pc \notin {"returned", "raised"}) =>
           ret.close_calls = 0

\* the last call made on the registry
LastCall == ret.log[Len(ret.log)]

\* the entries of a list that carry another id, in the list's order
OtherIds(data, deck_id) ==
    LET other(d) == d.id # deck_id IN SelectSeq(data, other)

\* C28: after mark_analyzed(id) returns, get_unanalyzed contains no entry
\* with that id and contains exactly the previously unanalyzed entries with
\* other ids in their original order; list_all keeps the same entries in the
\* same order; calling mark_analyzed with an id that is not registered, or a
\* second time with the same id, leaves the registry unchanged.
C28_MarkAnalyzedFrame ==
    (op = "registry" /\ ret.log # <<>> /\ LastCall.call = "mark_analyzed") =>
        LET deck_id == LastCall.id
            n == Len(ret.log)
        IN  /\ \A i \in 1..Len(GetUnanalyzed(ret.data)) :
                   GetUnanalyzed(ret.data)[i].id # deck_id
            /\ GetUnanalyzed(ret.data)
                   = OtherIds(GetUnanalyzed(ret.before), deck_id)
            /\ Len(ListAll(ret.data)) = Len(ListAll(ret.before))
            /\ \A i \in 1..Len(ret.data) :
                   /\ ret.data[i].id = ret.before[i].id
                   /\ ret.data[i].company = ret.before[i].company
                   /\ ret.data[i].id # deck_id => ret.data[i] = ret.before[i]
            /\ (\A i \in 1..Len(ret.before) : ret.before[i].id # deck_id) =>
                   ret.data = ret.before
            /\ (n >= 2 /\ ret.log[n - 1] = LastCall) =>
                   ret.data = ret.before

\* two entries share the id that is marked, a third has another id, and the
\* id is marked a second time
C28_Witness ==
    /\ op = "registry"
    /\ Len(ret.log) = 4
    /\ ret.log[3] = [call |-> "mark_analyzed", id |-> "deck_a"]
    /\ ret.log[4] = [call |-> "mark_analyzed", id |-> "deck_a"]
    /\ Len(ret.data) = 2
    /\ ret.data[1].id = "deck_b"
    /\ ret.data[2] = [id |-> "deck_a", company |-> "y", analyzed |-> "true"]
    /\ GetUnanalyzed(ret.data) = <<ret.data[1]>>

\* no call is in progress on the registry file
Quiescent == \A r \in Runs : ret.procs[r].call = "none"

\* C29: when two processes interleave register and mark_analyzed calls on
\* the same registry file, no update is lost: after all calls have finished,
\* every entry passed to register is in the registry and every entry whose
\* id was passed to mark_analyzed after its registration completed is marked
\* analyzed.
C29_NoLostUpdate ==
    (op = "registry_race" /\ Quiescent) =>
        /\ \A k \in ret.passed :
               \E i \in 1..Len(ret.file) : Key(ret.file[i]) = k
        /\ \A k \in ret.marked :
               \E i \in 1..Len(ret.file) :
                   /\ Key(ret.file[i]) = k
                   /\ ret.file[i].analyzed = "true"

\* the same when every call was made by one process
C29_OneProcess ==
    (op = "registry_race" /\ ret.procs[2] = NoCall) =>
        C29_NoLostUpdate

\* the files of a list of entries, in the list's order
FilesOf(data) == [k \in 1..Len(data) |-> data[k].file]

\* the entries that were unanalyzed when the script started and are marked
NewlyMarked ==
    {k \in 1..Len(arg) : arg[k].analyzed # "true"
                            /\ ret.data[k].analyzed = "true"}

\* C30: in the batch script a deck is marked analyzed only after
\* analyze_pitch_deck has returned for that deck without raising; decks are
\* processed in registry order; if the analysis of a deck raises, the script
\* stops and that deck and every later unanalyzed deck stay unanalyzed,
\* while decks marked earlier stay marked.
C30_BatchMarks ==
    op = "batch" =>
        /\ \A k \in NewlyMarked : arg[k].file \in ret.returned
        /\ \A k \in 1..Len(arg) :
               arg[k].analyzed = "true" => ret.data[k].analyzed = "true"
        /\ ret.started
               = SubSeq(FilesOf(GetUnanalyzed(arg)), 1, Len(ret.started))
        /\ ret.status = "raised" =>
               /\ ~ENABLED NextBatch
               /\ \A j \in ret.i..Len(ret.decks) :
                      ret.data[ret.decks[j].file].analyzed # "true"
               /\ \A j \in 1..(ret.i - 1) :
                      ret.data[ret.decks[j].file].analyzed = "true"

\* no two entries of the registry share an id
DistinctIds ==
    \A j, k \in 1..Len(arg) : arg[j].id = arg[k].id => j = k

\* the same for a registry whose entries have distinct ids
C30_DistinctIds == DistinctIds => C30_BatchMarks

====
